---------------------------- MODULE Spec2Model ----------------------------
(***************************************************************************)
(* A model of the authentication and session subsystem of the ClockWork    *)
(* backend (src/clockwork-auth-controller.js) together with the            *)
(* notification dispatcher it awaits (src/clockwork-email-service.js).     *)
(*                                                                         *)
(* The relational store (users, nutrition, audit_logs, email_logs) and the *)
(* key-value store with per-key expiry (redis) are state variables.  Every *)
(* handler is an operator that maps the current state and the request to   *)
(* an outcome: the HTTP response and the stores as the handler leaves      *)
(* them.  The handlers whose store read and store writes are separated by  *)
(* awaits that the checked properties depend on (refreshTokens,            *)
(* resetPassword, verifyTwoFactor) are split into a check step and an      *)
(* apply step that run in a slot of `calls`, so two calls interleave.      *)
(*                                                                         *)
(* Time is in seconds.  A JSON web token is the signature over its claims  *)
(* {id, type, iat, exp}: two tokens signed for the same subject and type   *)
(* within the same second are the same string, so a token is modelled as   *)
(* the record of its claims.                                               *)
(*                                                                         *)
(* Two in-memory limiters are modelled beside it: the websocket connection *)
(* counter of src/clockwork-rate-limiter.js and the per-number SMS rate    *)
(* limit of SMSService (src/unnamed/part_000), whose send awaits the       *)
(* gateway between its check and its record and so runs in a slot too.     *)
(***************************************************************************)
EXTENDS Integers, Sequences, FiniteSets, TLC

VARIABLES
    now,          \* Math.floor(Date.now() / 1000)
    ticks,        \* how many times the clock has advanced (bounds the run)
    uniqueEmail,  \* whether the users table carries a unique index on email
    nextId,       \* the next identifier the users table hands out
    users,        \* users table: id -> row
    nutrition,    \* nutrition table: the client ids that own a row
    audit_logs,   \* audit_logs table: set of [user_id, action]
    email_logs,   \* email_logs table: set of [to, template_id, status]
    redis,        \* key-value store, one field per key prefix
    calls,        \* the handlers that are between their check and apply step
    resp,         \* the response the last completed step sent
    issued,       \* every token the service has handed out so far
    rotated,      \* refresh tokens that refreshTokens exchanged successfully
    spent,        \* reset tokens that resetPassword consumed successfully
    revoked,      \* unexpired access tokens whose logout completed successfully
    connections,  \* websocket.connections: userId -> open connections
    rateLimits,   \* SMSService.rateLimits: number -> timestamps of recorded sends
    sms_logs,     \* sms_logs table: set of [to, status]
    delivered     \* per number, the times at which the gateway accepted a message

\* the state of the two limiters
limiters == << connections, rateLimits, sms_logs, delivered >>

\* the state of the authentication subsystem, the last response aside
stores == << now, ticks, uniqueEmail, nextId, users, nutrition, audit_logs,
             email_logs, redis, issued, rotated, spent, revoked >>

vars == << now, ticks, uniqueEmail, nextId, users, nutrition, audit_logs,
           email_logs, redis, calls, resp, issued, rotated, spent, revoked,
           connections, rateLimits, sms_logs, delivered >>

---------------------------------------------------------------------------
(* Bounds of the model *)

MaxUsers == 2
MaxTicks == 1
MaxCalls == 2
MaxSkew == 3     \* how many time steps a presented code may be off

(* Lifetimes, in seconds *)

JWT_EXPIRE == 900
JWT_REFRESH_EXPIRE == 604800
TEMP_EXPIRE == 300
RESET_EXPIRE == 3600
SETUP_EXPIRE == 600
BACKUP_EXPIRE == 31536000
TOTP_STEP == 30
TOTP_WINDOW == 2
BACKUP_CODES == 8

NULL == "null"

---------------------------------------------------------------------------
(* Request data *)

Emails == {"a@b.com", "A@b.com", "c@d.com", "not-an-email"}

\* String.prototype.toLowerCase on the addresses above
toLowerCase(e) == IF e = "A@b.com" THEN "a@b.com" ELSE e

Passwords == {"Str0ng!Pass", "N3w!Passw0rd", "weak"}

\* utils/validators.validateEmail
validateEmail(e) == e # "not-an-email"

\* utils/validators.validatePassword
validatePassword(p) ==
    IF p = "weak" THEN [isValid |-> FALSE, errors |-> "too short"]
                  ELSE [isValid |-> TRUE, errors |-> NULL]

\* bcrypt.hash / bcrypt.compare: the salt is left out, compare depends on the
\* password alone
bcryptHash(p) == << "bcrypt", p >>
bcryptCompare(p, h) == h = bcryptHash(p)

Ids == 1 .. MaxUsers

---------------------------------------------------------------------------
(* Tokens *)

TokenTypes == {"access", "refresh", "2fa_temp", "password_reset"}

Lifetime(type) ==
    CASE type = "access"         -> JWT_EXPIRE
      [] type = "refresh"        -> JWT_REFRESH_EXPIRE
      [] type = "2fa_temp"       -> TEMP_EXPIRE
      [] type = "password_reset" -> RESET_EXPIRE
      [] OTHER                   -> 0

\* the key a token type is signed with
SecretOf(type) == IF type = "refresh" THEN "JWT_REFRESH_SECRET" ELSE "JWT_SECRET"

\* jwt.sign(payload, secret, {expiresIn}) at the current second
jwtSign(id, type) == [id |-> id, type |-> type, iat |-> now]

TokenExp(t) == t.iat + Lifetime(t.type)

\* a string that is no token of this service
Garbage == [id |-> 0, type |-> "garbage", iat |-> 0]

\* jwt.verify(token, secret): throws on a bad signature or an expired token
jwtVerifies(t, secret) ==
    /\ t.type \in TokenTypes
    /\ SecretOf(t.type) = secret
    /\ now < TokenExp(t)

generateTokens(userId) ==
    [accessToken  |-> jwtSign(userId, "access"),
     refreshToken |-> jwtSign(userId, "refresh")]


---------------------------------------------------------------------------
(* The key-value store.  redis.refresh, redis.temp, redis.setup and      *)
(* redis.backup are keyed by subject id (refresh_<id>, 2fa_temp_<id>,     *)
(* 2fa_setup_<id>, 2fa_backup_<id>); redis.reset and redis.blacklist are  *)
(* keyed by the token string (reset_<token>, blacklist_<token>).  Every   *)
(* entry carries the second at which it expires.                          *)

EmptyRedis ==
    [refresh |-> << >>, temp |-> << >>, reset |-> << >>,
     blacklist |-> << >>, setup |-> << >>, backup |-> << >>]

\* redis.setex(key, ttl, value) on one key space
setex(space, key, ttl, value) ==
    [k \in (DOMAIN space) \cup {key} |->
        IF k = key THEN [v |-> value, exp |-> now + ttl] ELSE space[k]]

\* redis.del(key) on one key space
del(space, key) == [k \in (DOMAIN space) \ {key} |-> space[k]]

\* redis.get(key) on one key space: present and not yet expired
has(space, key) == key \in DOMAIN space /\ now < space[key].exp

\* the keys of a key space that are gone at second t
Expire(space, t) == [k \in {x \in DOMAIN space : t < space[x].exp} |-> space[k]]

---------------------------------------------------------------------------
(* The relational store *)

\* db('users').where({email}).first(): the row with the lowest id
RowsByEmail(e) == {i \in DOMAIN users : users[i].email = e}
First(S) == CHOOSE i \in S : \A j \in S : i <= j

insertRow(tbl, id, row) == [k \in (DOMAIN tbl) \cup {id} |-> IF k = id THEN row ELSE tbl[k]]

\* db('audit_logs').insert({user_id, action, ...})
auditRow(id, action) == [user_id |-> id, action |-> action]

---------------------------------------------------------------------------
(* Outcomes.  A handler leaves the stores as `st` and answers `status`,   *)
(* `body`; `sent` are the tokens it delivered to the client, in the       *)
(* response or by mail.                                                   *)

Keep ==
    [users |-> users, nextId |-> nextId, nutrition |-> nutrition,
     audit_logs |-> audit_logs, email_logs |-> email_logs, redis |-> redis]

Out(status, body, st, sent) ==
    [status |-> status, body |-> body, st |-> st, sent |-> sent]

Error(status, msg, st) == Out(status, [error |-> msg], st, {})

---------------------------------------------------------------------------
(* EmailService.send in production mode: sgMail.send either delivers or   *)
(* throws; either way logEmail records the attempt (its own failures are  *)
(* swallowed) and a throw is passed on to the caller.                     *)

MailOutcomes == {"sent", "throw"}

emailSend(logs, to, template_id, sg) ==
    logs \cup {[to |-> to, template_id |-> template_id,
                status |-> IF sg = "sent" THEN "sent" ELSE "failed"]}


---------------------------------------------------------------------------
(* signup.  The users, nutrition and audit_logs inserts run in one        *)
(* transaction, rolled back by the catch block; the redis write and the   *)
(* email log are outside it.                                              *)

RoleSets == {{"client"}, {"specialist"}}

\* the value stored under refresh_<id>
sessionRecord(refreshToken, email, roles) ==
    [token |-> refreshToken, email |-> email, roles |-> roles]

\* signup whose catch block does not roll back: a failure after the insert
\* leaves the user row and the nutrition row.  C11 must tell it from signup.
signupWithoutRollback(email, password, roles, sg, auditOk) ==
    LET id  == nextId
        row == [email |-> toLowerCase(email), password |-> bcryptHash(password),
                roles |-> roles, two_factor_enabled |-> FALSE,
                two_factor_secret |-> NULL]
        st1 == [Keep EXCEPT !.users = insertRow(users, id, row),
                            !.nextId = id + 1,
                            !.nutrition = IF "client" \in roles
                                            THEN nutrition \cup {id} ELSE nutrition]
    IN  IF ~validateEmail(email) \/ ~validatePassword(password).isValid
          THEN Error(400, "Invalid email format", Keep)
        ELSE IF RowsByEmail(toLowerCase(email)) # {}
          THEN Error(409, "Email already registered", Keep)
        ELSE IF sg = "throw" \/ ~auditOk
          THEN Error(500, "Failed to create account", st1)
        ELSE Out(201, [message |-> "Account created successfully"],
                 [st1 EXCEPT !.audit_logs = @ \cup {auditRow(id, "signup")}], {})

signup(email, password, roles, sg, auditOk) ==
    LET pv     == validatePassword(password)
        id     == nextId
        row    == [email |-> toLowerCase(email),
                   password |-> bcryptHash(password),
                   roles |-> roles,
                   two_factor_enabled |-> FALSE,
                   two_factor_secret |-> NULL]
        tokens == generateTokens(id)
        redis1 == [redis EXCEPT !.refresh =
                      setex(redis.refresh, id, JWT_REFRESH_EXPIRE,
                            sessionRecord(tokens.refreshToken, row.email, roles))]
        logs1  == emailSend(email_logs, email, "welcome", sg)
        \* what the catch block leaves once the insert has gone through
        rolledBack == [Keep EXCEPT !.nextId = id + 1, !.redis = redis1,
                                   !.email_logs = logs1]
    IN  IF ~validateEmail(email)
          THEN Error(400, "Invalid email format", Keep)
        ELSE IF ~pv.isValid
          THEN Out(400, [error |-> "Password requirements not met",
                         details |-> pv.errors], Keep, {})
        ELSE IF RowsByEmail(email) # {}
          THEN Error(409, "Email already registered", Keep)
        ELSE IF uniqueEmail /\ RowsByEmail(toLowerCase(email)) # {}
          \* the insert violates the unique index and throws
          THEN Error(500, "Failed to create account", Keep)
        ELSE IF sg = "throw"
          THEN Error(500, "Failed to create account", rolledBack)
        ELSE IF ~auditOk
          THEN Error(500, "Failed to create account", rolledBack)
        ELSE Out(201,
                 [user |-> [id |-> id, email |-> row.email, roles |-> roles],
                  accessToken |-> tokens.accessToken,
                  refreshToken |-> tokens.refreshToken,
                  message |-> "Account created successfully"],
                 [users |-> insertRow(users, id, row),
                  nextId |-> id + 1,
                  nutrition |-> IF "client" \in roles THEN nutrition \cup {id}
                                                      ELSE nutrition,
                  audit_logs |-> audit_logs \cup {auditRow(id, "signup")},
                  email_logs |-> logs1,
                  redis |-> redis1],
                 {tokens.accessToken, tokens.refreshToken})

---------------------------------------------------------------------------
(* login *)

\* login without the challenge branch: every password match is answered with
\* the token pair.  C6 must tell it from login.
loginWithoutChallenge(email, password, auditOk) ==
    LET found == RowsByEmail(toLowerCase(email))
        id    == First(found)
        user  == users[id]
        tokens == generateTokens(id)
        redis1 == [redis EXCEPT !.refresh =
                      setex(redis.refresh, id, JWT_REFRESH_EXPIRE,
                            sessionRecord(tokens.refreshToken, user.email, user.roles))]
    IN  IF found = {}
          THEN Error(401, "Invalid credentials", Keep)
        ELSE IF ~bcryptCompare(password, user.password)
          THEN Error(401, "Invalid credentials", Keep)
        ELSE Out(200,
                 [user |-> [id |-> id, email |-> user.email, roles |-> user.roles,
                            twoFactorEnabled |-> user.two_factor_enabled],
                  accessToken |-> tokens.accessToken,
                  refreshToken |-> tokens.refreshToken,
                  message |-> "Login successful"],
                 [Keep EXCEPT !.redis = redis1],
                 {tokens.accessToken, tokens.refreshToken})

login(email, password, auditOk) ==
    LET found == RowsByEmail(toLowerCase(email))
        id    == First(found)
        user  == users[id]
        tempToken == jwtSign(id, "2fa_temp")
        tokens == generateTokens(id)
        redis1 == [redis EXCEPT !.refresh =
                      setex(redis.refresh, id, JWT_REFRESH_EXPIRE,
                            sessionRecord(tokens.refreshToken, user.email, user.roles))]
    IN  IF found = {}
          THEN Error(401, "Invalid credentials", Keep)
        ELSE IF ~bcryptCompare(password, user.password)
          THEN IF ~auditOk
                 THEN Error(500, "Login failed", Keep)
                 ELSE Error(401, "Invalid credentials",
                            [Keep EXCEPT !.audit_logs =
                                @ \cup {auditRow(id, "failed_login")}])
        ELSE IF user.two_factor_enabled /\ user.two_factor_secret # NULL
          THEN Out(200,
                   [requiresTwoFactor |-> TRUE, tempToken |-> tempToken,
                    message |-> "Please enter your 2FA code"],
                   [Keep EXCEPT !.redis.temp =
                       setex(redis.temp, id, TEMP_EXPIRE, tempToken)],
                   {tempToken})
        ELSE IF ~auditOk
          THEN Error(500, "Login failed", [Keep EXCEPT !.redis = redis1])
        ELSE Out(200,
                 [user |-> [id |-> id, email |-> user.email, roles |-> user.roles,
                            twoFactorEnabled |-> user.two_factor_enabled],
                  accessToken |-> tokens.accessToken,
                  refreshToken |-> tokens.refreshToken,
                  message |-> "Login successful"],
                 [Keep EXCEPT !.redis = redis1,
                              !.audit_logs = @ \cup {auditRow(id, "login")}],
                 {tokens.accessToken, tokens.refreshToken})

---------------------------------------------------------------------------
(* The authenticate middleware of the protected routes: the bearer token  *)
(* is a valid access token that is not blacklisted and whose subject      *)
(* exists.                                                                *)

validateAccess(token) ==
    IF ~jwtVerifies(token, "JWT_SECRET") \/ token.type # "access"
      THEN "Malformed"
    ELSE IF has(redis.blacklist, token) THEN "Revoked"
    ELSE IF token.id \notin DOMAIN users THEN "Malformed"
    ELSE "Valid"

\* logout that drops the session record but writes no blacklist entry.  C7
\* must tell it from logout.
logoutWithoutBlacklist(userId, token, auditOk) ==
    Out(200, [message |-> "Logged out successfully"],
        [Keep EXCEPT !.redis.refresh = del(redis.refresh, userId)], {})

\* logout that fails when there is no session record to delete and that
\* restarts the lifetime of the blacklist entry.  C20 must tell it from logout.
logoutOnce(userId, token, auditOk) ==
    IF userId \notin DOMAIN redis.refresh
      THEN Error(400, "Not logged in", Keep)
      ELSE Out(200, [message |-> "Logged out successfully"],
               [Keep EXCEPT
                  !.redis.blacklist = setex(redis.blacklist, token, JWT_EXPIRE, "1"),
                  !.redis.refresh = del(redis.refresh, userId)],
               {})

\* logout that writes the blacklist entry whatever is left of the lifetime
\* of the token.  C30 must tell it from logout.
logoutAlwaysBlacklists(userId, token, auditOk) ==
    LET ttl    == TokenExp(token) - now
        redis1 == [redis EXCEPT !.blacklist = setex(redis.blacklist, token, ttl, "1"),
                                !.refresh = del(redis.refresh, userId)]
    IN  IF ~auditOk
          THEN Error(500, "Logout failed", [Keep EXCEPT !.redis = redis1])
          ELSE Out(200, [message |-> "Logged out successfully"],
                   [Keep EXCEPT !.redis = redis1,
                                !.audit_logs = @ \cup {auditRow(userId, "logout")}],
                   {})

(* logout: req.user and req.token come from the middleware *)

logout(userId, token, auditOk) ==
    LET ttl    == TokenExp(token) - now
        black1 == IF ttl > 0 THEN setex(redis.blacklist, token, ttl, "1")
                             ELSE redis.blacklist
        redis1 == [redis EXCEPT !.blacklist = black1,
                                !.refresh = del(redis.refresh, userId)]
    IN  IF ~auditOk
          THEN Error(500, "Logout failed", [Keep EXCEPT !.redis = redis1])
          ELSE Out(200, [message |-> "Logged out successfully"],
                   [Keep EXCEPT !.redis = redis1,
                                !.audit_logs = @ \cup {auditRow(userId, "logout")}],
                   {})

---------------------------------------------------------------------------
(* refreshTokens, in two steps: the verification and the redis.get, then  *)
(* (after the awaits) the user lookup, generateTokens and the redis.setex *)

\* no refreshToken in the request body
Missing == [id |-> 0, type |-> "none", iat |-> 0]

\* refreshTokens that tells a missing session record from a bad token.  C19
\* must tell it from refreshTokens.
refreshCheckTelling(refreshToken) ==
    IF refreshToken = Missing
      THEN Error(401, "Refresh token required", Keep)
    ELSE IF ~jwtVerifies(refreshToken, "JWT_REFRESH_SECRET")
      THEN Error(401, "Invalid refresh token", Keep)
    ELSE IF ~has(redis.refresh, refreshToken.id)
      THEN Error(401, "Session expired", Keep)
    ELSE IF redis.refresh[refreshToken.id].v.token # refreshToken
      THEN Error(401, "Session expired", Keep)
    ELSE Out(0, [proceed |-> TRUE], Keep, {})

\* refreshTokens that takes any refresh token of a subject with a session
\* record.  C29 must tell it from refreshTokens.
refreshCheckAnyStored(refreshToken) ==
    IF refreshToken = Missing
      THEN Error(401, "Refresh token required", Keep)
    ELSE IF ~jwtVerifies(refreshToken, "JWT_REFRESH_SECRET")
      THEN Error(401, "Invalid refresh token", Keep)
    ELSE IF ~has(redis.refresh, refreshToken.id)
      THEN Error(401, "Invalid refresh token", Keep)
    ELSE Out(0, [proceed |-> TRUE], Keep, {})

refreshCheck(refreshToken) ==
    IF refreshToken = Missing
      THEN Error(401, "Refresh token required", Keep)
    ELSE IF ~jwtVerifies(refreshToken, "JWT_REFRESH_SECRET")
      THEN Error(401, "Invalid refresh token", Keep)
    ELSE IF ~has(redis.refresh, refreshToken.id)
      THEN Error(401, "Invalid refresh token", Keep)
    ELSE IF redis.refresh[refreshToken.id].v.token # refreshToken
      THEN Error(401, "Invalid refresh token", Keep)
    ELSE Out(0, [proceed |-> TRUE], Keep, {})

refreshApply(refreshToken) ==
    LET id     == refreshToken.id
        tokens == generateTokens(id)
    IN  IF id \notin DOMAIN users
          THEN Error(401, "User not found", Keep)
          ELSE Out(200,
                   [accessToken |-> tokens.accessToken,
                    refreshToken |-> tokens.refreshToken],
                   [Keep EXCEPT !.redis.refresh =
                       setex(redis.refresh, id, JWT_REFRESH_EXPIRE,
                             sessionRecord(tokens.refreshToken, users[id].email,
                                           users[id].roles))],
                   {tokens.accessToken, tokens.refreshToken})


---------------------------------------------------------------------------
(* resetPasswordRequest *)

GenericAck ==
    [message |-> "If an account exists with this email, you will receive a password reset link."]

\* resetPasswordRequest that also drops the session record of the user.
\* C31 must tell it from resetPasswordRequest.
resetPasswordRequestCutsSession(email, sg, auditOk) ==
    LET found == RowsByEmail(toLowerCase(email))
        id    == First(found)
        resetToken == jwtSign(id, "password_reset")
        st1   == [Keep EXCEPT
                    !.redis.reset = setex(redis.reset, resetToken, RESET_EXPIRE, id),
                    !.redis.refresh = del(redis.refresh, id),
                    !.email_logs = emailSend(email_logs, users[id].email,
                                             "password_reset", sg)]
    IN  IF found = {}
          THEN Out(200, GenericAck, Keep, {})
        ELSE IF sg = "throw"
          THEN Error(500, "Failed to process request", st1)
        ELSE IF ~auditOk
          THEN Out(500, [error |-> "Failed to process request"], st1, {resetToken})
        ELSE Out(200, GenericAck,
                 [st1 EXCEPT !.audit_logs =
                     @ \cup {auditRow(id, "password_reset_request")}],
                 {resetToken})

resetPasswordRequest(email, sg, auditOk) ==
    LET found == RowsByEmail(toLowerCase(email))
        id    == First(found)
        resetToken == jwtSign(id, "password_reset")
        st1   == [Keep EXCEPT
                    !.redis.reset = setex(redis.reset, resetToken, RESET_EXPIRE, id),
                    !.email_logs = emailSend(email_logs, users[id].email,
                                             "password_reset", sg)]
    IN  IF found = {}
          THEN Out(200, GenericAck, Keep, {})
        ELSE IF sg = "throw"
          THEN Error(500, "Failed to process request", st1)
        ELSE IF ~auditOk
          THEN Out(500, [error |-> "Failed to process request"], st1, {resetToken})
        ELSE Out(200, GenericAck,
                 [st1 EXCEPT !.audit_logs =
                     @ \cup {auditRow(id, "password_reset_request")}],
                 {resetToken})

---------------------------------------------------------------------------
(* resetPassword, in two steps: the verification, the redis.get and the   *)
(* password validation, then (after the awaits) the update, the two       *)
(* redis.del, the confirmation mail and the audit row                     *)

\* resetPassword that uses up the reset token before it looks at the new
\* password.  C22 must tell it from resetPassword.
resetCheckBurnsToken(token, newPassword) ==
    LET pv == validatePassword(newPassword)
    IN  IF ~jwtVerifies(token, "JWT_SECRET")
          THEN Error(400, "Invalid or expired reset token", Keep)
        ELSE IF token.type # "password_reset"
          THEN Error(400, "Invalid token type", Keep)
        ELSE IF ~has(redis.reset, token)
          THEN Error(400, "Invalid or expired reset token", Keep)
        ELSE IF redis.reset[token].v # token.id
          THEN Error(400, "Invalid or expired reset token", Keep)
        ELSE IF ~pv.isValid
          THEN Out(400, [error |-> "Password requirements not met",
                         details |-> pv.errors],
                   [Keep EXCEPT !.redis.reset = del(redis.reset, token)], {})
        ELSE Out(0, [proceed |-> TRUE], Keep, {})

resetCheck(token, newPassword) ==
    LET pv == validatePassword(newPassword)
    IN  IF ~jwtVerifies(token, "JWT_SECRET")
          THEN Error(400, "Invalid or expired reset token", Keep)
        ELSE IF token.type # "password_reset"
          THEN Error(400, "Invalid token type", Keep)
        ELSE IF ~has(redis.reset, token)
          THEN Error(400, "Invalid or expired reset token", Keep)
        ELSE IF redis.reset[token].v # token.id
          THEN Error(400, "Invalid or expired reset token", Keep)
        ELSE IF ~pv.isValid
          THEN Out(400, [error |-> "Password requirements not met",
                         details |-> pv.errors], Keep, {})
        ELSE Out(0, [proceed |-> TRUE], Keep, {})

\* resetPassword that leaves the session record of the subject in place.
\* C13 must tell it from resetPassword.
resetApplyKeepsSession(token, newPassword, sg, auditOk) ==
    IF token.id \notin DOMAIN users \/ sg = "throw" \/ ~auditOk
      THEN Error(400, "Failed to reset password", Keep)
      ELSE Out(200,
               [message |-> "Password reset successfully. Please login with your new password."],
               [Keep EXCEPT
                  !.users = [users EXCEPT ![token.id].password = bcryptHash(newPassword)],
                  !.redis.reset = del(redis.reset, token)],
               {})

\* resetPassword that deletes every reset entry of the subject.  C38 must
\* tell it from resetPassword.
resetApplyDropsAll(token, newPassword, sg, auditOk) ==
    LET userId == token.id
        users1 == IF userId \in DOMAIN users
                    THEN [users EXCEPT ![userId].password = bcryptHash(newPassword)]
                    ELSE users
        st1    == [Keep EXCEPT
                     !.users = users1,
                     !.redis.reset =
                        [k \in {x \in DOMAIN redis.reset : redis.reset[x].v # userId}
                           |-> redis.reset[k]],
                     !.redis.refresh = del(redis.refresh, userId)]
        st2    == [st1 EXCEPT !.email_logs =
                     emailSend(email_logs, users[userId].email, "password_changed", sg)]
    IN  IF userId \notin DOMAIN users
          THEN Error(400, "Failed to reset password", st1)
        ELSE IF sg = "throw"
          THEN Error(400, "Failed to reset password", st2)
        ELSE IF ~auditOk
          THEN Error(400, "Failed to reset password", st2)
        ELSE Out(200,
                 [message |-> "Password reset successfully. Please login with your new password."],
                 [st2 EXCEPT !.audit_logs = @ \cup {auditRow(userId, "password_reset")}],
                 {})

resetApply(token, newPassword, sg, auditOk) ==
    LET userId == token.id
        users1 == IF userId \in DOMAIN users
                    THEN [users EXCEPT ![userId].password = bcryptHash(newPassword)]
                    ELSE users
        st1    == [Keep EXCEPT
                     !.users = users1,
                     !.redis.reset = del(redis.reset, token),
                     !.redis.refresh = del(redis.refresh, userId)]
        st2    == [st1 EXCEPT !.email_logs =
                     emailSend(email_logs, users[userId].email, "password_changed", sg)]
    IN  IF userId \notin DOMAIN users
          THEN Error(400, "Failed to reset password", st1)
        ELSE IF sg = "throw"
          THEN Error(400, "Failed to reset password", st2)
        ELSE IF ~auditOk
          THEN Error(400, "Failed to reset password", st2)
        ELSE Out(200,
                 [message |-> "Password reset successfully. Please login with your new password."],
                 [st2 EXCEPT !.audit_logs = @ \cup {auditRow(userId, "password_reset")}],
                 {})

---------------------------------------------------------------------------
(* Time-based one-time codes.  A code is the HOTP value of a secret at a  *)
(* counter; speakeasy.totp.verify accepts the counters within `window`    *)
(* of the current one.                                                    *)

Secrets == {"SECRETA", "SECRETB"}

CurrentStep == now \div TOTP_STEP

totpCode(secret, step) == [secret |-> secret, step |-> step]

\* a verification that looks back but not ahead.  C16 must tell it from
\* speakeasy.totp.verify.
totpVerifyPastOnly(secret, code, window) ==
    /\ code.secret = secret
    /\ code.step >= CurrentStep - window
    /\ code.step <= CurrentStep

totpVerify(secret, code, window) ==
    /\ code.secret = secret
    /\ code.step >= CurrentStep - window
    /\ code.step <= CurrentStep + window

---------------------------------------------------------------------------
(* verifyTwoFactor, in two steps: the verification of the challenge token *)
(* and of the code, then (after the awaits) the redis.del and the issue   *)

\* verifyTwoFactor that accepts any challenge token of a subject that has a
\* challenge stored, not only the stored one.  C15 must tell it from
\* verifyTwoFactor.
verifyCheckAnyChallenge(tempToken, code, auditOk) ==
    IF ~jwtVerifies(tempToken, "JWT_SECRET") \/ tempToken.type # "2fa_temp"
         \/ ~has(redis.temp, tempToken.id)
      THEN Error(401, "Invalid or expired token", Keep)
    ELSE IF tempToken.id \notin DOMAIN users
      THEN Error(400, "Two-factor authentication not set up", Keep)
    ELSE IF ~totpVerify(users[tempToken.id].two_factor_secret, code, TOTP_WINDOW)
      THEN Error(401, "Invalid verification code", Keep)
    ELSE Out(0, [proceed |-> TRUE], Keep, {})

\* verifyTwoFactor that records a token of another type as a failed
\* attempt.  C28 must tell it from verifyTwoFactor.
verifyCheckLogsWrongType(tempToken, code, auditOk) ==
    LET id == tempToken.id
    IN  IF ~jwtVerifies(tempToken, "JWT_SECRET")
          THEN Error(401, "Invalid or expired token", Keep)
        ELSE IF tempToken.type # "2fa_temp"
          THEN Error(401, "Invalid token type",
                     [Keep EXCEPT !.audit_logs = @ \cup {auditRow(id, "failed_2fa")}])
        ELSE IF ~has(redis.temp, id)
          THEN Error(401, "Invalid or expired token", Keep)
        ELSE IF redis.temp[id].v # tempToken
          THEN Error(401, "Invalid or expired token", Keep)
        ELSE IF id \notin DOMAIN users
          THEN Error(400, "Two-factor authentication not set up", Keep)
        ELSE IF users[id].two_factor_secret = NULL
          THEN Error(400, "Two-factor authentication not set up", Keep)
        ELSE IF ~totpVerify(users[id].two_factor_secret, code, TOTP_WINDOW)
          THEN IF ~auditOk
                 THEN Error(500, "Verification failed", Keep)
                 ELSE Error(401, "Invalid verification code",
                            [Keep EXCEPT !.audit_logs =
                                @ \cup {auditRow(id, "failed_2fa")}])
        ELSE Out(0, [proceed |-> TRUE], Keep, {})

\* verifyTwoFactor that drops the challenge when the code is wrong.  C37
\* must tell it from verifyTwoFactor.
verifyCheckBurnsChallenge(tempToken, code, auditOk) ==
    LET id == tempToken.id
    IN  IF ~jwtVerifies(tempToken, "JWT_SECRET")
          THEN Error(401, "Invalid or expired token", Keep)
        ELSE IF tempToken.type # "2fa_temp"
          THEN Error(401, "Invalid token type", Keep)
        ELSE IF ~has(redis.temp, id)
          THEN Error(401, "Invalid or expired token", Keep)
        ELSE IF redis.temp[id].v # tempToken
          THEN Error(401, "Invalid or expired token", Keep)
        ELSE IF id \notin DOMAIN users
          THEN Error(400, "Two-factor authentication not set up", Keep)
        ELSE IF users[id].two_factor_secret = NULL
          THEN Error(400, "Two-factor authentication not set up", Keep)
        ELSE IF ~totpVerify(users[id].two_factor_secret, code, TOTP_WINDOW)
          THEN IF ~auditOk
                 THEN Error(500, "Verification failed", Keep)
                 ELSE Error(401, "Invalid verification code",
                            [Keep EXCEPT
                               !.redis.temp = del(redis.temp, id),
                               !.audit_logs = @ \cup {auditRow(id, "failed_2fa")}])
        ELSE Out(0, [proceed |-> TRUE], Keep, {})

verifyCheck(tempToken, code, auditOk) ==
    LET id == tempToken.id
    IN  IF ~jwtVerifies(tempToken, "JWT_SECRET")
          THEN Error(401, "Invalid or expired token", Keep)
        ELSE IF tempToken.type # "2fa_temp"
          THEN Error(401, "Invalid token type", Keep)
        ELSE IF ~has(redis.temp, id)
          THEN Error(401, "Invalid or expired token", Keep)
        ELSE IF redis.temp[id].v # tempToken
          THEN Error(401, "Invalid or expired token", Keep)
        ELSE IF id \notin DOMAIN users
          THEN Error(400, "Two-factor authentication not set up", Keep)
        ELSE IF users[id].two_factor_secret = NULL
          THEN Error(400, "Two-factor authentication not set up", Keep)
        ELSE IF ~totpVerify(users[id].two_factor_secret, code, TOTP_WINDOW)
          THEN IF ~auditOk
                 THEN Error(500, "Verification failed", Keep)
                 ELSE Error(401, "Invalid verification code",
                            [Keep EXCEPT !.audit_logs =
                                @ \cup {auditRow(id, "failed_2fa")}])
        ELSE Out(0, [proceed |-> TRUE], Keep, {})

verifyApply(tempToken, auditOk) ==
    LET id     == tempToken.id
        user   == users[id]
        tokens == generateTokens(id)
        st1    == [Keep EXCEPT
                     !.redis.temp = del(redis.temp, id),
                     !.redis.refresh =
                        setex(redis.refresh, id, JWT_REFRESH_EXPIRE,
                              sessionRecord(tokens.refreshToken, user.email, user.roles))]
    IN  IF ~auditOk
          THEN Error(500, "Verification failed", st1)
          ELSE Out(200,
                   [user |-> [id |-> id, email |-> user.email, roles |-> user.roles,
                              twoFactorEnabled |-> user.two_factor_enabled],
                    accessToken |-> tokens.accessToken,
                    refreshToken |-> tokens.refreshToken,
                    message |-> "2FA verification successful"],
                   [st1 EXCEPT !.audit_logs = @ \cup {auditRow(id, "2fa_success")}],
                   {tokens.accessToken, tokens.refreshToken})

---------------------------------------------------------------------------
(* enableTwoFactor, confirmTwoFactor, disableTwoFactor: req.user is the   *)
(* row the middleware loaded                                              *)

\* enableTwoFactor without the check of the flag.  C23 must tell it from
\* enableTwoFactor.
enableTwoFactorUnchecked(userId, secret) ==
    Out(200,
        [secret |-> secret,
         message |-> "Scan the QR code with your authenticator app and confirm with a code"],
        [Keep EXCEPT !.redis.setup =
            setex(redis.setup, userId, SETUP_EXPIRE, secret)],
        {})

enableTwoFactor(userId, secret) ==
    IF users[userId].two_factor_enabled
      THEN Error(400, "Two-factor authentication is already enabled", Keep)
      ELSE Out(200,
               [secret |-> secret,
                message |-> "Scan the QR code with your authenticator app and confirm with a code"],
               [Keep EXCEPT !.redis.setup =
                   setex(redis.setup, userId, SETUP_EXPIRE, secret)],
               {})

\* Array.from({length: 8}, ...): the codes of one enrollment
backupCodes == {<< "backup", k >> : k \in 1 .. BACKUP_CODES}

\* confirmTwoFactor that drops the pending secret when the code is wrong.
\* C24 must tell it from confirmTwoFactor.
confirmTwoFactorDropsPending(userId, code, auditOk) ==
    LET secret == redis.setup[userId].v
        st1    == [Keep EXCEPT
                     !.users = [users EXCEPT ![userId].two_factor_secret = secret,
                                             ![userId].two_factor_enabled = TRUE],
                     !.redis.setup = del(redis.setup, userId),
                     !.redis.backup =
                        setex(redis.backup, userId, BACKUP_EXPIRE,
                              {bcryptHash(c) : c \in backupCodes})]
    IN  IF ~has(redis.setup, userId)
          THEN Error(400, "No pending 2FA setup found. Please start again.", Keep)
        ELSE IF ~totpVerify(secret, code, TOTP_WINDOW)
          THEN Error(400, "Invalid verification code",
                     [Keep EXCEPT !.redis.setup = del(redis.setup, userId)])
        ELSE IF ~auditOk
          THEN Error(500, "Failed to confirm two-factor authentication", st1)
        ELSE Out(200,
                 [message |-> "Two-factor authentication enabled successfully",
                  backupCodes |-> backupCodes],
                 [st1 EXCEPT !.audit_logs = @ \cup {auditRow(userId, "2fa_enabled")}],
                 {})

\* confirmTwoFactor that leaves the pending secret in the session store.
\* C25 must tell it from confirmTwoFactor.
confirmTwoFactorKeepsPending(userId, code, auditOk) ==
    LET secret == redis.setup[userId].v
        st1    == [Keep EXCEPT
                     !.users = [users EXCEPT ![userId].two_factor_secret = secret,
                                             ![userId].two_factor_enabled = TRUE],
                     !.redis.backup =
                        setex(redis.backup, userId, BACKUP_EXPIRE,
                              {bcryptHash(c) : c \in backupCodes})]
    IN  IF ~has(redis.setup, userId)
          THEN Error(400, "No pending 2FA setup found. Please start again.", Keep)
        ELSE IF ~totpVerify(secret, code, TOTP_WINDOW)
          THEN Error(400, "Invalid verification code", Keep)
        ELSE IF ~auditOk
          THEN Error(500, "Failed to confirm two-factor authentication", st1)
        ELSE Out(200,
                 [message |-> "Two-factor authentication enabled successfully",
                  backupCodes |-> backupCodes],
                 [st1 EXCEPT !.audit_logs = @ \cup {auditRow(userId, "2fa_enabled")}],
                 {})

confirmTwoFactor(userId, code, auditOk) ==
    LET secret == redis.setup[userId].v
        st1    == [Keep EXCEPT
                     !.users = [users EXCEPT ![userId].two_factor_secret = secret,
                                             ![userId].two_factor_enabled = TRUE],
                     !.redis.setup = del(redis.setup, userId),
                     !.redis.backup =
                        setex(redis.backup, userId, BACKUP_EXPIRE,
                              {bcryptHash(c) : c \in backupCodes})]
    IN  IF ~has(redis.setup, userId)
          THEN Error(400, "No pending 2FA setup found. Please start again.", Keep)
        ELSE IF ~totpVerify(secret, code, TOTP_WINDOW)
          THEN Error(400, "Invalid verification code", Keep)
        ELSE IF ~auditOk
          THEN Error(500, "Failed to confirm two-factor authentication", st1)
        ELSE Out(200,
                 [message |-> "Two-factor authentication enabled successfully",
                  backupCodes |-> backupCodes],
                 [st1 EXCEPT !.audit_logs = @ \cup {auditRow(userId, "2fa_enabled")}],
                 {})

\* disableTwoFactor that takes any password.  C26 must tell it from
\* disableTwoFactor.
disableTwoFactorAnyPassword(userId, password, auditOk) ==
    LET st1 == [Keep EXCEPT
                  !.users = [users EXCEPT ![userId].two_factor_enabled = FALSE,
                                          ![userId].two_factor_secret = NULL],
                  !.redis.backup = del(redis.backup, userId)]
    IN  IF ~auditOk
          THEN Error(500, "Failed to disable two-factor authentication", st1)
        ELSE Out(200, [message |-> "Two-factor authentication disabled successfully"],
                 [st1 EXCEPT !.audit_logs = @ \cup {auditRow(userId, "2fa_disabled")}],
                 {})

\* disableTwoFactor that clears the flag and keeps the secret.  C27 must
\* tell it from disableTwoFactor.
disableTwoFactorKeepsSecret(userId, password, auditOk) ==
    LET st1 == [Keep EXCEPT
                  !.users = [users EXCEPT ![userId].two_factor_enabled = FALSE],
                  !.redis.backup = del(redis.backup, userId)]
    IN  IF ~bcryptCompare(password, users[userId].password)
          THEN Error(401, "Invalid password", Keep)
        ELSE IF ~auditOk
          THEN Error(500, "Failed to disable two-factor authentication", st1)
        ELSE Out(200, [message |-> "Two-factor authentication disabled successfully"],
                 [st1 EXCEPT !.audit_logs = @ \cup {auditRow(userId, "2fa_disabled")}],
                 {})

disableTwoFactor(userId, password, auditOk) ==
    LET st1 == [Keep EXCEPT
                  !.users = [users EXCEPT ![userId].two_factor_enabled = FALSE,
                                          ![userId].two_factor_secret = NULL],
                  !.redis.backup = del(redis.backup, userId)]
    IN  IF ~bcryptCompare(password, users[userId].password)
          THEN Error(401, "Invalid password", Keep)
        ELSE IF ~auditOk
          THEN Error(500, "Failed to disable two-factor authentication", st1)
        ELSE Out(200, [message |-> "Two-factor authentication disabled successfully"],
                 [st1 EXCEPT !.audit_logs = @ \cup {auditRow(userId, "2fa_disabled")}],
                 {})


---------------------------------------------------------------------------
(* websocket: the connection limiter of src/clockwork-rate-limiter.js.    *)
(* Both functions are synchronous, so each runs as one step.              *)

maxConnectionsPerUser == 5

\* websocket.connections.get(userId) || 0
connectionsOf(map, userId) == IF userId \in DOMAIN map THEN map[userId] ELSE 0

\* Map.prototype.set
mapSet(map, key, value) ==
    [k \in DOMAIN map \cup {key} |-> IF k = key THEN value ELSE map[k]]

\* checkLimit that admits a connection at the limit.  C39 must tell it from
\* checkLimit.
checkLimitAboveOnly(userId) ==
    LET userConnections == connectionsOf(connections, userId)
    IN  IF userConnections > maxConnectionsPerUser
          THEN [result |-> FALSE, connections |-> connections]
          ELSE [result |-> TRUE,
                connections |-> mapSet(connections, userId, userConnections + 1)]

checkLimit(userId) ==
    LET userConnections == connectionsOf(connections, userId)
    IN  IF userConnections >= maxConnectionsPerUser
          THEN [result |-> FALSE, connections |-> connections]
          ELSE [result |-> TRUE,
                connections |-> mapSet(connections, userId, userConnections + 1)]

removeConnection(userId) ==
    LET userConnections == connectionsOf(connections, userId)
    IN  IF userConnections > 0
          THEN mapSet(connections, userId, userConnections - 1)
          ELSE connections

---------------------------------------------------------------------------
(* SMSService (src/unnamed/part_000) in production mode, with a gateway   *)
(* client.  A phone number is the sequence of its characters.  send       *)
(* validates the number and checks the rate limit, awaits the gateway,    *)
(* and records the send afterwards; the timestamps are on the clock `now`. *)

maxSMSPerHour == 10
maxSMSPerDay == 50
HOUR == 3600
DAY == 86400

Digits == {"0", "1", "2", "3", "4", "5", "6", "7", "8", "9"}

IsDigit(ch) == ch \in Digits

\* a US number of 10 digits, and the ways to write it
LocalNumber == << "5", "5", "5", "0", "1", "0", "0", "0", "0", "1" >>
PhoneNumbers ==
    { LocalNumber,
      << "1" >> \o LocalNumber,
      << "+", "1" >> \o LocalNumber,
      << "5", "5", "5" >> }

\* validatePhoneNumber: the number in international form, or a throw
validatePhoneNumber(phoneNumber) ==
    LET cleaned == SelectSeq(phoneNumber, IsDigit)
    IN  IF Len(cleaned) = 10
          THEN [ok |-> TRUE, value |-> << "+", "1" >> \o cleaned]
        ELSE IF Len(cleaned) = 11 /\ cleaned[1] = "1"
          THEN [ok |-> TRUE, value |-> << "+" >> \o cleaned]
        ELSE IF Len(cleaned) > 10 /\ cleaned[1] = "+"
          THEN [ok |-> TRUE, value |-> phoneNumber]
        ELSE [ok |-> FALSE, value |-> phoneNumber]

\* Array.prototype.filter(timestamp => timestamp > bound)
After(sends, bound) == SelectSeq(sends, LAMBDA t : t > bound)

\* checkRateLimit: drops the day-old entries, then throws at either limit
checkRateLimit(phoneNumber) ==
    LET sends       == IF phoneNumber \in DOMAIN rateLimits
                         THEN rateLimits[phoneNumber] ELSE << >>
        recentSends == After(sends, now - DAY)
        hourSends   == After(recentSends, now - HOUR)
    IN  [ok |-> /\ Len(hourSends) < maxSMSPerHour
                /\ Len(recentSends) < maxSMSPerDay,
         rateLimits |-> mapSet(rateLimits, phoneNumber, recentSends)]

\* recordSend
recordSend(limits, phoneNumber) ==
    LET sends == IF phoneNumber \in DOMAIN limits THEN limits[phoneNumber] ELSE << >>
    IN  mapSet(limits, phoneNumber, Append(sends, now))

\* logSMS
smsRow(to, status) == [to |-> to, status |-> status]

\* what the gateway does with a message
GatewayOutcomes == {"accepted", "rejected"}

---------------------------------------------------------------------------
(* The state machine *)

Slots == 1 .. MaxCalls
Idle == [op |-> "idle"]
NoResp == [op |-> "none"]

InitWith(U) ==
    /\ now = 0
    /\ ticks = 0
    /\ uniqueEmail \in U
    /\ nextId = 1
    /\ users = << >>
    /\ nutrition = {}
    /\ audit_logs = {}
    /\ email_logs = {}
    /\ redis = EmptyRedis
    /\ calls = [s \in Slots |-> Idle]
    /\ resp = NoResp
    /\ issued = {}
    /\ rotated = {}
    /\ spent = {}
    /\ revoked = {}
    /\ connections = << >>
    /\ rateLimits = << >>
    /\ sms_logs = {}
    /\ delivered = << >>

\* the schema of the users table is not part of the sources: either
Init == InitWith(BOOLEAN)

\* the stores and the response as a handler leaves them
Commit(op, out) ==
    /\ resp' = [op |-> op, status |-> out.status, body |-> out.body]
    /\ users' = out.st.users
    /\ nextId' = out.st.nextId
    /\ nutrition' = out.st.nutrition
    /\ audit_logs' = out.st.audit_logs
    /\ email_logs' = out.st.email_logs
    /\ redis' = out.st.redis
    /\ issued' = issued \cup out.sent
    /\ UNCHANGED << now, ticks, uniqueEmail >>
    /\ UNCHANGED limiters

\* a handler passed its check step and waits in a slot for its apply step
Suspend(s, call) ==
    /\ calls' = [calls EXCEPT ![s] = call]
    /\ resp' = NoResp
    /\ UNCHANGED << now, ticks, uniqueEmail, nextId, users, nutrition, audit_logs,
                    email_logs, redis, issued, rotated, spent, revoked >>
    /\ UNCHANGED limiters

\* the lowest free slot takes the next call
FreeSlot(s) == calls[s] = Idle /\ \A r \in Slots : r < s => calls[r] # Idle

\* the call in slot s completes; when it succeeded, the calls that passed
\* their check on the same token and still wait have been overtaken
Release(s, ok) ==
    calls' = [r \in Slots |->
                IF r = s THEN Idle
                ELSE IF ok /\ calls[r] # Idle /\ calls[r].op = calls[s].op
                           /\ calls[r].token = calls[s].token
                  THEN [calls[r] EXCEPT !.overtaken = TRUE]
                ELSE calls[r]]

\* the bearer tokens the authenticate middleware lets through
Authenticated == {t \in issued : validateAccess(t) = "Valid"}

\* what a client can present as a token: one it was given, or anything else
Presented == issued \cup {Garbage}

\* the codes a client can present: of either secret, generated o steps away
Codes(offsets) ==
    {totpCode(sec, CurrentStep + o) : sec \in Secrets, o \in offsets}

Signup(E, P, R, SG, A) ==
    \E e \in E, p \in P, roles \in R, sg \in SG, a \in A :
        LET out == signup(e, p, roles, sg, a)
        IN  /\ out.st.nextId <= MaxUsers + 1
            /\ Commit("signup", out)
            /\ UNCHANGED << calls, rotated, spent, revoked >>

Login(E, P, A) ==
    \E e \in E, p \in P, a \in A :
        /\ Commit("login", login(e, p, a))
        /\ UNCHANGED << calls, rotated, spent, revoked >>

Logout(A) ==
    \E t \in Authenticated, a \in A :
        LET out == logout(t.id, t, a)
        IN  /\ Commit("logout", out)
            /\ revoked' = IF out.status = 200 THEN revoked \cup {t} ELSE revoked
            /\ UNCHANGED << calls, rotated, spent >>

RefreshCheck(s) ==
    \E t \in Presented \cup {Missing} :
        LET out == refreshCheck(t)
        IN  /\ FreeSlot(s)
            /\ IF out.status = 0
                 THEN Suspend(s, [op |-> "refreshTokens", token |-> t,
                                  overtaken |-> FALSE])
                 ELSE /\ Commit("refreshTokens", out)
                      /\ UNCHANGED << calls, rotated, spent, revoked >>

RefreshApply(s) ==
    /\ calls[s] # Idle
    /\ calls[s].op = "refreshTokens"
    /\ LET t   == calls[s].token
           out == refreshApply(t)
       IN  /\ Commit("refreshTokens", out)
           /\ Release(s, out.status = 200)
           /\ rotated' = IF out.status = 200 THEN rotated \cup {t} ELSE rotated
           /\ UNCHANGED << spent, revoked >>

ResetPasswordRequest(E, SG, A) ==
    \E e \in E, sg \in SG, a \in A :
        /\ Commit("resetPasswordRequest", resetPasswordRequest(e, sg, a))
        /\ UNCHANGED << calls, rotated, spent, revoked >>

ResetCheck(s, P) ==
    \E t \in Presented, p \in P :
        LET out == resetCheck(t, p)
        IN  /\ FreeSlot(s)
            /\ IF out.status = 0
                 THEN Suspend(s, [op |-> "resetPassword", token |-> t,
                                  newPassword |-> p, overtaken |-> FALSE])
                 ELSE /\ Commit("resetPassword", out)
                      /\ UNCHANGED << calls, rotated, spent, revoked >>

ResetApply(s, SG, A) ==
    /\ calls[s] # Idle
    /\ calls[s].op = "resetPassword"
    /\ \E sg \in SG, a \in A :
        LET t   == calls[s].token
            out == resetApply(t, calls[s].newPassword, sg, a)
        IN  /\ Commit("resetPassword", out)
            /\ Release(s, out.status = 200)
            /\ spent' = IF out.status = 200 THEN spent \cup {t} ELSE spent
            /\ UNCHANGED << rotated, revoked >>

VerifyCheck(s, O, A) ==
    \E t \in Presented, code \in Codes(O), a \in A :
        LET out == verifyCheck(t, code, a)
        IN  /\ FreeSlot(s)
            /\ IF out.status = 0
                 THEN Suspend(s, [op |-> "verifyTwoFactor", token |-> t,
                                  overtaken |-> FALSE])
                 ELSE /\ Commit("verifyTwoFactor", out)
                      /\ UNCHANGED << calls, rotated, spent, revoked >>

VerifyApply(s, A) ==
    /\ calls[s] # Idle
    /\ calls[s].op = "verifyTwoFactor"
    /\ \E a \in A :
        LET t   == calls[s].token
            out == verifyApply(t, a)
        IN  /\ Commit("verifyTwoFactor", out)
            /\ Release(s, out.status = 200)
            /\ UNCHANGED << rotated, spent, revoked >>

EnableTwoFactor ==
    \E t \in Authenticated, sec \in Secrets :
        /\ Commit("enableTwoFactor", enableTwoFactor(t.id, sec))
        /\ UNCHANGED << calls, rotated, spent, revoked >>

ConfirmTwoFactor(O, A) ==
    \E t \in Authenticated, code \in Codes(O), a \in A :
        /\ Commit("confirmTwoFactor", confirmTwoFactor(t.id, code, a))
        /\ UNCHANGED << calls, rotated, spent, revoked >>

DisableTwoFactor(P, A) ==
    \E t \in Authenticated, p \in P, a \in A :
        /\ Commit("disableTwoFactor", disableTwoFactor(t.id, p, a))
        /\ UNCHANGED << calls, rotated, spent, revoked >>

\* the clock advances by d seconds; the entries whose time has come are gone
Tick(D) ==
    \E d \in D :
        /\ ticks < MaxTicks
        /\ ticks' = ticks + 1
        /\ now' = now + d
        /\ redis' = [k \in DOMAIN redis |-> Expire(redis[k], now + d)]
        /\ resp' = NoResp
        /\ revoked' = {t \in revoked : now + d < TokenExp(t)}
        /\ UNCHANGED << uniqueEmail, nextId, users, nutrition, audit_logs,
                        email_logs, calls, issued, rotated, spent >>
        /\ UNCHANGED limiters

\* the users that open and close websocket connections
SocketUsers == {"u1", "u2", "u3"}

CheckLimit ==
    \E userId \in SocketUsers :
        LET out == checkLimit(userId)
        IN  /\ connections' = out.connections
            /\ resp' = [op |-> "checkLimit", userId |-> userId, result |-> out.result]
            /\ UNCHANGED << stores, calls, rateLimits, sms_logs, delivered >>

RemoveConnection ==
    \E userId \in SocketUsers :
        /\ connections' = removeConnection(userId)
        /\ resp' = [op |-> "removeConnection", userId |-> userId]
        /\ UNCHANGED << stores, calls, rateLimits, sms_logs, delivered >>

\* SMSService.send up to the await of the gateway: a number that does not
\* validate or is at its limit ends the call in the catch block
SmsSend(s) ==
    \E to \in PhoneNumbers :
        LET formattedTo == validatePhoneNumber(to)
            limit       == checkRateLimit(formattedTo.value)
        IN  /\ FreeSlot(s)
            /\ IF ~formattedTo.ok
                 THEN /\ resp' = [op |-> "send", result |-> "Invalid phone number format"]
                      /\ sms_logs' = sms_logs \cup {smsRow(to, "failed")}
                      /\ UNCHANGED << calls, rateLimits >>
               ELSE IF ~limit.ok
                 THEN /\ resp' = [op |-> "send", result |-> "SMS limit exceeded"]
                      /\ rateLimits' = limit.rateLimits
                      /\ sms_logs' = sms_logs \cup {smsRow(to, "failed")}
                      /\ UNCHANGED calls
               ELSE /\ resp' = NoResp
                    /\ rateLimits' = limit.rateLimits
                    /\ calls' = [calls EXCEPT ![s] =
                                   [op |-> "send", to |-> to,
                                    formattedTo |-> formattedTo.value]]
                    /\ UNCHANGED sms_logs
            /\ UNCHANGED << stores, connections, delivered >>

\* SMSService.send after the await: the gateway accepted the message and the
\* send is recorded, or it rejected it and the catch block logs the failure
SmsDeliver(s) ==
    /\ calls[s] # Idle
    /\ calls[s].op = "send"
    /\ \E outcome \in GatewayOutcomes :
        LET to == calls[s].formattedTo
        IN  /\ IF outcome = "accepted"
                 THEN /\ rateLimits' = recordSend(rateLimits, to)
                      /\ delivered' = recordSend(delivered, to)
                      /\ sms_logs' = sms_logs \cup {smsRow(to, "sent")}
                      /\ resp' = [op |-> "send", result |-> "sent"]
                 ELSE /\ sms_logs' = sms_logs \cup {smsRow(calls[s].to, "failed")}
                      /\ resp' = [op |-> "send", result |-> "gateway error"]
                      /\ UNCHANGED << rateLimits, delivered >>
            /\ calls' = [calls EXCEPT ![s] = Idle]
            /\ UNCHANGED << stores, connections >>

---------------------------------------------------------------------------
(* Specifications.  Each one runs the handlers of one part of the         *)
(* subsystem, with the requests and the collaborator failures that part   *)
(* is checked against; the handlers that only set the scene run with      *)
(* well-formed requests and collaborators that work.                      *)

Good == {"Str0ng!Pass"}
Works == {TRUE}
Delivers == {"sent"}
Clients == {{"client"}}

\* sessions: signup, login, refresh, logout
NextSession ==
    \/ Signup({"a@b.com"}, Good, Clients, Delivers, Works)
    \/ Login({"a@b.com", "c@d.com"}, Passwords, BOOLEAN)
    \/ Logout(BOOLEAN)
    \/ \E s \in {1} : RefreshCheck(s)
    \/ \E s \in {1} : RefreshApply(s)
    \/ Tick({1, JWT_EXPIRE, JWT_REFRESH_EXPIRE})

SpecSession == InitWith({TRUE}) /\ [][NextSession]_vars

\* signup, with every request and every collaborator failure
NextSignup ==
    \/ Signup(Emails, Passwords, RoleSets, MailOutcomes, BOOLEAN)
    \/ Login({"a@b.com", "A@b.com"}, Good, Works)
    \/ Tick({1})

SpecSignup == Init /\ [][NextSignup]_vars

\* password recovery: two resetPassword calls may be in flight at once
NextReset ==
    \/ Signup({"a@b.com"}, Good, Clients, Delivers, Works)
    \/ ResetPasswordRequest({"a@b.com", "c@d.com"}, MailOutcomes, BOOLEAN)
    \/ \E s \in Slots : ResetCheck(s, Passwords \ Good)
    \/ \E s \in Slots : ResetApply(s, MailOutcomes, BOOLEAN)
    \/ Tick({1, RESET_EXPIRE})

SpecReset == InitWith({TRUE}) /\ [][NextReset]_vars

\* the second factor: two verifyTwoFactor calls may be in flight at once
NextTwoFactor ==
    \/ Signup({"a@b.com"}, Good, Clients, Delivers, Works)
    \/ Login({"a@b.com"}, Good, BOOLEAN)
    \/ EnableTwoFactor
    \/ ConfirmTwoFactor({0, 3}, Works)
    \/ DisableTwoFactor(Good, Works)
    \/ \E s \in Slots : VerifyCheck(s, {0, 3}, Works)
    \/ \E s \in Slots : VerifyApply(s, BOOLEAN)
    \/ Tick({1, TEMP_EXPIRE})

SpecTwoFactor == InitWith({TRUE}) /\ [][NextTwoFactor]_vars

\* login against a user who turns 2FA on and off; no verification in flight
NextChallenge ==
    \/ Signup({"a@b.com"}, Good, Clients, Delivers, Works)
    \/ Login({"a@b.com", "A@b.com", "c@d.com"}, Passwords, BOOLEAN)
    \/ EnableTwoFactor
    \/ ConfirmTwoFactor({0, 3}, BOOLEAN)
    \/ DisableTwoFactor(Passwords, BOOLEAN)
    \/ Tick({1, TEMP_EXPIRE})

SpecChallenge == InitWith({TRUE}) /\ [][NextChallenge]_vars

\* password recovery next to the session it cuts off: login, refresh and
\* resetPassword of one user
NextRecovery ==
    \/ Signup({"a@b.com"}, Good, Clients, Delivers, Works)
    \/ Login({"a@b.com"}, Good, Works)
    \/ ResetPasswordRequest({"a@b.com"}, Delivers, Works)
    \/ \E s \in {1} : RefreshCheck(s)
    \/ \E s \in {1} : RefreshApply(s)
    \/ \E s \in {1, 2} : ResetCheck(s, {"N3w!Passw0rd"})
    \/ \E s \in {1, 2} : ResetApply(s, Delivers, BOOLEAN)
    \/ Tick({1})

SpecRecovery == InitWith({TRUE}) /\ [][NextRecovery]_vars

\* the time steps by which a presented code is off
Skews == (0 - MaxSkew) .. MaxSkew

\* verification of the second factor, one call at a time, with codes of
\* every skew
NextVerify ==
    \/ Signup({"a@b.com"}, Good, Clients, Delivers, Works)
    \/ Login({"a@b.com"}, Good, Works)
    \/ EnableTwoFactor
    \/ ConfirmTwoFactor(Skews, Works)
    \/ DisableTwoFactor(Good, Works)
    \/ \E s \in {1} : VerifyCheck(s, Skews, Works)
    \/ \E s \in {1} : VerifyApply(s, Works)
    \/ Tick({1, TEMP_EXPIRE})

SpecVerify == InitWith({TRUE}) /\ [][NextVerify]_vars

\* signup alone: the requests that reach the insert, with both spellings of
\* one email, and every collaborator failure
NextEnroll ==
    \/ Signup({"a@b.com", "A@b.com", "not-an-email"}, Good \cup {"weak"},
              RoleSets, MailOutcomes, BOOLEAN)
    \/ Tick({1})

SpecEnroll == Init /\ [][NextEnroll]_vars

\* tokens of every type presented to verifyTwoFactor and to resetPassword
NextTypes ==
    \/ Signup({"a@b.com"}, Good, Clients, Delivers, Works)
    \/ Login({"a@b.com"}, Good, Works)
    \/ EnableTwoFactor
    \/ ConfirmTwoFactor({0}, Works)
    \/ ResetPasswordRequest({"a@b.com"}, Delivers, Works)
    \/ \E s \in {1} : VerifyCheck(s, {0}, Works)
    \/ \E s \in {1} : VerifyApply(s, Works)
    \/ \E s \in {1} : ResetCheck(s, {"weak"})
    \/ Tick({1})

SpecTypes == InitWith({TRUE}) /\ [][NextTypes]_vars

\* refresh with session records whose signup was rolled back
NextRefresh ==
    \/ Signup({"a@b.com"}, Good, Clients, MailOutcomes, Works)
    \/ Login({"a@b.com"}, Good, Works)
    \/ Logout(Works)
    \/ \E s \in {1} : RefreshCheck(s)
    \/ \E s \in {1} : RefreshApply(s)
    \/ Tick({1, JWT_EXPIRE, JWT_REFRESH_EXPIRE})

SpecRefresh == InitWith({TRUE}) /\ [][NextRefresh]_vars

\* requests with malformed emails and weak passwords among the valid ones
NextValidation ==
    \/ Signup({"a@b.com", "not-an-email"}, Passwords, Clients, Delivers, Works)
    \/ Login({"a@b.com"}, Good, Works)
    \/ ResetPasswordRequest({"a@b.com"}, Delivers, Works)
    \/ \E s \in {1} : ResetCheck(s, Passwords)
    \/ \E s \in {1} : ResetApply(s, Delivers, Works)
    \/ Tick({1})

SpecValidation == InitWith({TRUE}) /\ [][NextValidation]_vars

\* requests for a reset link, for users and for unknown emails
NextRequest ==
    \/ Signup({"a@b.com"}, Good, Clients, Delivers, Works)
    \/ Login({"a@b.com"}, Good, Works)
    \/ ResetPasswordRequest({"a@b.com", "c@d.com"}, MailOutcomes, BOOLEAN)
    \/ Tick({1, RESET_EXPIRE})

SpecRequest == InitWith({TRUE}) /\ [][NextRequest]_vars

\* refreshTokens calls that overlap
NextRotate ==
    \/ Signup({"a@b.com"}, Good, Clients, Delivers, Works)
    \/ Login({"a@b.com"}, Good, Works)
    \/ \E s \in Slots : RefreshCheck(s)
    \/ \E s \in Slots : RefreshApply(s)
    \/ Tick({1})

SpecRotate == InitWith({TRUE}) /\ [][NextRotate]_vars

\* websocket connections opened and closed in any order
NextWebsocket ==
    \/ CheckLimit
    \/ RemoveConnection

SpecWebsocket == InitWith({TRUE}) /\ [][NextWebsocket]_vars

\* messages to one number, written in several ways, with two sends that
\* overlap
NextSms ==
    \/ \E s \in {1, 2} : SmsSend(s)
    \/ \E s \in {1, 2} : SmsDeliver(s)
    \/ Tick({HOUR})

SpecSms == InitWith({TRUE}) /\ [][NextSms]_vars

---------------------------------------------------------------------------
(* Properties *)

\* what the caller sees of an outcome
Response(out) == [status |-> out.status, body |-> out.body]

\* the stores of the subsystem: the credential store and the session store
Stores(st) == [users |-> st.users, redis |-> st.redis]

\* C1: after refreshTokens succeeded with a refresh token (it is in
\* `rotated`), every later refreshTokens call that presents the same token is
\* rejected with 401 "Invalid refresh token".
C1_RotatedTokenRejected ==
    \A t \in rotated :
        Response(refreshCheck(t)) = [status |-> 401,
                                     body |-> [error |-> "Invalid refresh token"]]

\* C7: a logout that completes for an access token that has not expired
\* leaves a blacklist entry for that token that lasts until the token
\* expires, and no session record of the subject; and every token whose
\* logout completed answers Revoked until it expires.
C7_LogoutRevokes ==
    /\ \A t \in Authenticated, a \in BOOLEAN :
          LET out == logout(t.id, t, a)
          IN  out.status = 200 =>
                /\ t \in DOMAIN out.st.redis.blacklist
                /\ out.st.redis.blacklist[t].exp = TokenExp(t)
                /\ t.id \notin DOMAIN out.st.redis.refresh
    /\ \A t \in revoked :
          /\ now < TokenExp(t)
          /\ validateAccess(t) = "Revoked"

\* C7 witness: a logout has completed, a second has passed, and the token is
\* still rejected as revoked
C7_Witness ==
    \E t \in revoked : now > t.iat /\ validateAccess(t) = "Revoked"

\* C10: the login response when no user has the email equals the response
\* when the user exists and the password is wrong.
C10_LoginIndistinguishable ==
    \A e1, e2 \in Emails, p1, p2 \in Passwords, a1, a2 \in BOOLEAN :
        LET found2 == RowsByEmail(toLowerCase(e2))
        IN  ( /\ RowsByEmail(toLowerCase(e1)) = {}
              /\ found2 # {}
              /\ ~bcryptCompare(p2, users[First(found2)].password) )
            => Response(login(e1, p1, a1)) = Response(login(e2, p2, a2))

\* C2: a reset token that resetPassword consumed successfully (it is in
\* `spent`) fails on every later resetPassword call with "Invalid or expired
\* reset token", whatever the new password, and so changes no password.
C2_SpentResetTokenFails ==
    \A t \in spent, p \in Passwords :
        LET out == resetCheck(t, p)
        IN  /\ Response(out) = [status |-> 400,
                                body |-> [error |-> "Invalid or expired reset token"]]
            /\ out.st.users = users

\* C3: of two resetPassword calls in flight with the same reset token, at
\* most one succeeds: a call that another call with its token has overtaken
\* does not answer 200.
C3_AtMostOneResetSucceeds ==
    [][ \A s \in Slots :
          ( /\ calls[s] # Idle
            /\ calls[s].op = "resetPassword"
            /\ calls[s].overtaken
            /\ calls'[s] = Idle )
          => resp'.status # 200 ]_vars

\* C4: of two verifyTwoFactor calls in flight with the same challenge token,
\* at most one is answered with tokens.
C4_AtMostOneVerifySucceeds ==
    [][ \A s \in Slots :
          ( /\ calls[s] # Idle
            /\ calls[s].op = "verifyTwoFactor"
            /\ calls[s].overtaken
            /\ calls'[s] = Idle )
          => "accessToken" \notin DOMAIN resp'.body ]_vars

\* C5: a signup whose email equals, ignoring letter case, the email of a user
\* that exists answers 409 and leaves the credential store and the session
\* store as they are; and no two users share an email ignoring case.
C5_DuplicateSignupConflicts ==
    /\ \A e \in Emails, p \in Passwords, roles \in RoleSets,
          sg \in MailOutcomes, a \in BOOLEAN :
          ( /\ validateEmail(e)
            /\ validatePassword(p).isValid
            /\ \E i \in DOMAIN users : users[i].email = toLowerCase(e) )
          => LET out == signup(e, p, roles, sg, a)
             IN  /\ out.status = 409
                 /\ Stores(out.st) = Stores(Keep)
    /\ \A i, j \in DOMAIN users :
          toLowerCase(users[i].email) = toLowerCase(users[j].email) => i = j

\* C6: login with the correct password of a user with 2FA enabled returns no
\* token pair and writes no session record: it stores the challenge token
\* under 2fa_temp_<id> and answers requiresTwoFactor with that token.  For a
\* user without 2FA it writes the session record with the refresh token it
\* minted, answers 200 when the audit insert succeeds, and the pair it
\* returns is the minted one.
C6_LoginBranches ==
    \A e \in Emails, p \in Passwords, a \in BOOLEAN :
        LET found == RowsByEmail(toLowerCase(e))
            id    == First(found)
            out   == login(e, p, a)
        IN  (found # {} /\ bcryptCompare(p, users[id].password)) =>
              IF users[id].two_factor_enabled
                THEN /\ out.status = 200
                     /\ DOMAIN out.body = {"requiresTwoFactor", "tempToken", "message"}
                     /\ out.body.requiresTwoFactor
                     /\ out.body.tempToken = jwtSign(id, "2fa_temp")
                     /\ out.st.redis.temp[id] =
                           [v |-> out.body.tempToken, exp |-> now + TEMP_EXPIRE]
                     /\ out.st.redis.refresh = redis.refresh
                     /\ out.sent = {out.body.tempToken}
                ELSE /\ out.st.redis.refresh[id].v.token =
                           generateTokens(id).refreshToken
                     /\ out.st.redis.refresh[id].exp = now + JWT_REFRESH_EXPIRE
                     /\ out.st.redis.temp = redis.temp
                     /\ a => out.status = 200
                     /\ out.status = 200 =>
                           /\ out.body.accessToken = generateTokens(id).accessToken
                           /\ out.body.refreshToken = generateTokens(id).refreshToken

\* C6 witness: a login of a user with 2FA enabled was answered with a challenge
C6_Witness ==
    /\ resp.op = "login"
    /\ resp.status = 200
    /\ "requiresTwoFactor" \in DOMAIN resp.body
    /\ \E i \in DOMAIN users :
          /\ users[i].two_factor_enabled
          /\ has(redis.temp, i)
          /\ redis.temp[i].v = resp.body.tempToken

\* C8: signup, resetPasswordRequest and resetPassword answer the same and
\* leave the same stores whether the notification is delivered or fails.
C8_MailFailureChangesNothing ==
    /\ \A e \in Emails, p \in Passwords, roles \in RoleSets, a \in BOOLEAN :
          /\ Response(signup(e, p, roles, "throw", a))
                = Response(signup(e, p, roles, "sent", a))
          /\ Stores(signup(e, p, roles, "throw", a).st)
                = Stores(signup(e, p, roles, "sent", a).st)
    /\ \A e \in Emails, a \in BOOLEAN :
          /\ Response(resetPasswordRequest(e, "throw", a))
                = Response(resetPasswordRequest(e, "sent", a))
          /\ Stores(resetPasswordRequest(e, "throw", a).st)
                = Stores(resetPasswordRequest(e, "sent", a).st)
    /\ \A s \in Slots, a \in BOOLEAN :
          (calls[s] # Idle /\ calls[s].op = "resetPassword") =>
            LET t == calls[s].token
                p == calls[s].newPassword
            IN  /\ Response(resetApply(t, p, "throw", a))
                      = Response(resetApply(t, p, "sent", a))
                /\ Stores(resetApply(t, p, "throw", a).st)
                      = Stores(resetApply(t, p, "sent", a).st)

\* C9: resetPasswordRequest answers the same for an email of a user and for
\* an email of nobody, whether or not the notification or the audit insert
\* fails.
C9_ResetRequestIndistinguishable ==
    \A e1, e2 \in Emails, sg1, sg2 \in MailOutcomes, a1, a2 \in BOOLEAN :
        ( /\ RowsByEmail(toLowerCase(e1)) # {}
          /\ RowsByEmail(toLowerCase(e2)) = {} )
        => Response(resetPasswordRequest(e1, sg1, a1))
              = Response(resetPasswordRequest(e2, sg2, a2))

\* C11: a signup that does not answer 201 leaves the users, nutrition and
\* audit_logs tables as they were; one that answers 201 leaves the new user
\* row and, for role client, its nutrition row.  So in every state each
\* nutrition row and each signup audit row belongs to a user, and each user
\* with role client has a nutrition row.
C11_SignupAllOrNothing ==
    /\ \A e \in Emails, p \in Passwords, roles \in RoleSets,
          sg \in MailOutcomes, a \in BOOLEAN :
          LET out == signup(e, p, roles, sg, a)
          IN  IF out.status = 201
                THEN /\ DOMAIN out.st.users = DOMAIN users \cup {nextId}
                     /\ out.st.users[nextId].email = toLowerCase(e)
                     /\ \A i \in DOMAIN users : out.st.users[i] = users[i]
                     /\ "client" \in roles => nextId \in out.st.nutrition
                     /\ auditRow(nextId, "signup") \in out.st.audit_logs
                ELSE /\ out.st.users = users
                     /\ out.st.nutrition = nutrition
                     /\ out.st.audit_logs = audit_logs
    /\ \A i \in nutrition : i \in DOMAIN users
    /\ \A r \in audit_logs : r.action = "signup" => r.user_id \in DOMAIN users
    /\ \A i \in DOMAIN users : "client" \in users[i].roles => i \in nutrition

\* C11 witness: a signup failed after its insert had gone through (it used up
\* an id) next to one that succeeded
C11_Witness ==
    /\ resp.op = "signup"
    /\ resp.status = 500
    /\ users # << >>
    /\ \E i \in 1 .. (nextId - 1) : i \notin DOMAIN users

\* C12: a session record exists only for a user whose row is committed.
C12_NoSessionWithoutUser ==
    \A i \in DOMAIN redis.refresh : i \in DOMAIN users

\* the refresh tokens handed out so far for subject id
RefreshTokensOf(id) == {t \in issued : t.type = "refresh" /\ t.id = id}

\* the call in slot s is a resetPassword that completes in this step with 200
ResetSucceeds(s) ==
    /\ calls[s] # Idle
    /\ calls[s].op = "resetPassword"
    /\ calls'[s] = Idle
    /\ resp'.op = "resetPassword"
    /\ resp'.status = 200

\* C13: a resetPassword that succeeds for a subject leaves no session record
\* of that subject; while the record is absent it stays absent through every
\* step that is not a login, verifyTwoFactor, signup or refreshTokens; and
\* while it is absent refreshTokens rejects every refresh token handed out
\* for the subject.
C13_ResetCutsSession ==
    [][ /\ \A s \in Slots :
              ResetSucceeds(s) => calls[s].token.id \notin DOMAIN redis'.refresh
        /\ \A id \in DOMAIN users :
              ( /\ id \notin DOMAIN redis.refresh
                /\ resp'.op \notin {"login", "verifyTwoFactor", "signup", "refreshTokens"} )
              => id \notin DOMAIN redis'.refresh
        /\ \A id \in DOMAIN users' :
              id \notin DOMAIN redis'.refresh =>
                \A t \in RefreshTokensOf(id)' :
                    Response(refreshCheck(t))' =
                        [status |-> 401, body |-> [error |-> "Invalid refresh token"]]
      ]_vars

\* C13 witness: resetPassword has just succeeded for a subject that holds a
\* refresh token, and the session record is gone
C13_Witness ==
    /\ resp.op = "resetPassword"
    /\ resp.status = 200
    /\ \E id \in DOMAIN users :
          /\ RefreshTokensOf(id) # {}
          /\ id \notin DOMAIN redis.refresh

\* C14: the session store holds at most one record per subject (its key is
\* the subject id), and a login, verifyTwoFactor or refreshTokens that
\* answers with a token pair for a subject leaves the minted refresh token as
\* that record, so that refreshTokens rejects every refresh token handed out
\* for the subject before.
C14_NewSessionSupersedes ==
    [][ ( /\ resp'.op \in {"login", "verifyTwoFactor", "refreshTokens"}
          /\ resp'.status = 200
          /\ "refreshToken" \in DOMAIN resp'.body )
        => LET id == resp'.body.refreshToken.id
           IN  /\ redis'.refresh[id].v.token = resp'.body.refreshToken
               /\ \A t \in RefreshTokensOf(id) :
                     Response(refreshCheck(t))' =
                         [status |-> 401, body |-> [error |-> "Invalid refresh token"]]
      ]_vars

\* the challenge tokens handed out that are validly signed and not expired,
\* while another challenge is the one stored for their subject
Superseded ==
    {t \in issued : /\ t.type = "2fa_temp"
                    /\ jwtVerifies(t, "JWT_SECRET")
                    /\ has(redis.temp, t.id)
                    /\ redis.temp[t.id].v # t}

\* C15: verifyTwoFactor rejects a challenge token that is not the one stored
\* for its subject with "Invalid or expired token", whatever the code, and
\* changes nothing.
C15_SupersededChallengeRejected ==
    \A t \in Superseded, code \in Codes(Skews), a \in BOOLEAN :
        LET out == verifyCheck(t, code, a)
        IN  /\ Response(out) = [status |-> 401,
                                body |-> [error |-> "Invalid or expired token"]]
            /\ out.st = Keep

\* C15 witness: verifyTwoFactor has rejected a token while a superseded
\* challenge of a subject with a secret is outstanding
C15_Witness ==
    /\ resp.op = "verifyTwoFactor"
    /\ resp.status = 401
    /\ resp.body.error = "Invalid or expired token"
    /\ \E t \in Superseded : users[t.id].two_factor_secret # NULL

\* the challenge tokens that verifyTwoFactor would take up to the code check:
\* validly signed, stored for their subject, and the subject has a secret
Current ==
    {t \in issued : /\ t.type = "2fa_temp"
                    /\ jwtVerifies(t, "JWT_SECRET")
                    /\ has(redis.temp, t.id)
                    /\ redis.temp[t.id].v = t
                    /\ t.id \in DOMAIN users
                    /\ users[t.id].two_factor_secret # NULL}

\* C16: verifyTwoFactor and confirmTwoFactor accept a code of the right
\* secret generated at most 2 time steps before or after the current step,
\* and reject with "Invalid verification code" one generated 3 or more steps
\* away.
C16_TotpWindow ==
    /\ \A t \in Current, o \in Skews :
          LET code == totpCode(users[t.id].two_factor_secret, CurrentStep + o)
              out  == verifyCheck(t, code, TRUE)
          IN  IF o >= -2 /\ o <= 2
                THEN out.status = 0
                ELSE Response(out) = [status |-> 401,
                                      body |-> [error |-> "Invalid verification code"]]
    /\ \A id \in DOMAIN users, o \in Skews :
          has(redis.setup, id) =>
            LET code == totpCode(redis.setup[id].v, CurrentStep + o)
                out  == confirmTwoFactor(id, code, TRUE)
            IN  IF o >= -2 /\ o <= 2
                  THEN out.status = 200
                  ELSE Response(out) = [status |-> 400,
                                        body |-> [error |-> "Invalid verification code"]]

\* C16 witness: verifyTwoFactor has rejected a code of a current challenge,
\* in a time step other than the first
C16_Witness ==
    /\ resp.op = "verifyTwoFactor"
    /\ resp.status = 401
    /\ resp.body.error = "Invalid verification code"
    /\ Current # {}
    /\ CurrentStep > 0

\* what verifyTwoFactor answers to a wrong code
InvalidCode == [status |-> 401, body |-> [error |-> "Invalid verification code"]]

\* the codes that are wrong for subject id now: of another secret, or too
\* many steps away
WrongCodes(id) ==
    {c \in Codes(Skews) : ~totpVerify(users[id].two_factor_secret, c, TOTP_WINDOW)}

\* the challenge tokens that are validly signed and the ones stored for their
\* subject, whether or not the subject still has a secret
Stored ==
    {t \in issued : /\ t.type = "2fa_temp"
                    /\ jwtVerifies(t, "JWT_SECRET")
                    /\ has(redis.temp, t.id)
                    /\ redis.temp[t.id].v = t
                    /\ t.id \in DOMAIN users}

\* C17: with a valid, current challenge token verifyTwoFactor answers a wrong
\* code and a subject without a secret alike.
C17_NoSecretLikeWrongCode ==
    \A t \in Stored, c \in Codes(Skews) :
        IF users[t.id].two_factor_secret = NULL
          THEN Response(verifyCheck(t, c, TRUE)) = InvalidCode
          ELSE c \in WrongCodes(t.id) =>
                 Response(verifyCheck(t, c, TRUE)) = InvalidCode

\* the challenge tokens handed out whose lifetime is over
Lapsed == {t \in issued : t.type = "2fa_temp" /\ ~jwtVerifies(t, "JWT_SECRET")}

\* C18: verifyTwoFactor answers an expired or superseded challenge token as
\* it answers a wrong code.
C18_LapsedLikeWrongCode ==
    /\ \A t \in Current : \A c \in WrongCodes(t.id) :
          Response(verifyCheck(t, c, TRUE)) = InvalidCode
    /\ \A t \in Lapsed \cup Superseded, c \in Codes(Skews) :
          Response(verifyCheck(t, c, TRUE)) = InvalidCode

\* what refreshTokens answers to a token it does not accept
InvalidRefresh == [status |-> 401, body |-> [error |-> "Invalid refresh token"]]

\* the refresh tokens handed out whose lifetime is over
ExpiredRefresh == {t \in issued : t.type = "refresh" /\ now >= TokenExp(t)}

\* what is not a refresh token at all, or is signed with another secret
Malformed == {Garbage} \cup {t \in issued : t.type # "refresh"}

\* the refresh tokens that are validly signed but not the one in the session
\* record of their subject, or whose subject has no session record
Stale ==
    {t \in issued : /\ t.type = "refresh"
                    /\ jwtVerifies(t, "JWT_REFRESH_SECRET")
                    /\ \/ ~has(redis.refresh, t.id)
                       \/ redis.refresh[t.id].v.token # t}

\* C19: refreshTokens answers an expired token, a malformed or wrongly signed
\* one, and a validly signed one that is superseded or has no session record
\* with the same 401 "Invalid refresh token", and changes nothing.
C19_RefreshRejectsUniformly ==
    \A t \in ExpiredRefresh \cup Malformed \cup Stale :
        LET out == refreshCheck(t)
        IN  /\ Response(out) = InvalidRefresh
            /\ out.st = Keep

\* C19 witness: refreshTokens has rejected a token while a superseded refresh
\* token is outstanding next to the session record that superseded it
C19_Witness ==
    /\ resp.op = "refreshTokens"
    /\ resp = [op |-> "refreshTokens", status |-> 401,
               body |-> [error |-> "Invalid refresh token"]]
    /\ \E t \in Stale : has(redis.refresh, t.id)

\* the access tokens that are blacklisted while their subject has no session
\* record: the state a logout leaves
LoggedOut ==
    {t \in issued : /\ t.type = "access"
                    /\ has(redis.blacklist, t)
                    /\ t.id \notin DOMAIN redis.refresh}

\* C20: logout with an access token that is already blacklisted, for a
\* subject whose session record is already absent, leaves the session store
\* as it is, and answers 200 when its audit row is written; every token
\* whose logout completed is in that state until a new session is written.
C20_LogoutIdempotent ==
    /\ \A t \in LoggedOut, a \in BOOLEAN :
          LET again == logout(t.id, t, a)
          IN  /\ again.st.redis = redis
              /\ a => Response(again) =
                        [status |-> 200,
                         body |-> [message |-> "Logged out successfully"]]
    /\ \A t \in revoked :
          t.id \notin DOMAIN redis.refresh => t \in LoggedOut

\* C20 witness: a logout has just completed and left its token blacklisted
\* and its subject without a session record
C20_Witness ==
    /\ resp.op = "logout"
    /\ resp.status = 200
    /\ revoked \cap LoggedOut # {}

\* C21: no subject has a login challenge (2fa_temp_<id>) and a pending
\* enrollment secret (2fa_setup_<id>) at the same time.
C21_OneChallengePerSubject ==
    \A id \in DOMAIN users : ~(has(redis.temp, id) /\ has(redis.setup, id))

\* the reset tokens that resetPassword takes up with a password that meets
\* the requirements
Usable == {t \in issued : \E p \in Passwords : resetCheck(t, p).status = 0}

\* C22: signup with a malformed email or a weak password answers 400 and
\* writes nothing; resetPassword with a usable reset token and a weak new
\* password answers 400 "Password requirements not met" and writes nothing,
\* so the password, the reset entry and the session record are as before.
C22_ValidationMutatesNothing ==
    /\ \A e \in Emails, p \in Passwords, roles \in RoleSets,
          sg \in MailOutcomes, a \in BOOLEAN :
          (~validateEmail(e) \/ ~validatePassword(p).isValid) =>
            LET out == signup(e, p, roles, sg, a)
            IN  out.status = 400 /\ out.st = Keep
    /\ \A t \in Usable, p \in Passwords :
          ~validatePassword(p).isValid =>
            LET out == resetCheck(t, p)
            IN  /\ out.status = 400
                /\ out.body.error = "Password requirements not met"
                /\ out.st = Keep

\* C22 witness: resetPassword has rejected a weak password and the reset
\* token it was called with is still usable
C22_Witness ==
    /\ resp.op = "resetPassword"
    /\ resp.status = 400
    /\ resp.body.error = "Password requirements not met"
    /\ Usable # {}

\* the 2FA fields of a row of users
TwoFactorOf(row) ==
    [enabled |-> row.two_factor_enabled, secret |-> row.two_factor_secret]

\* C23: enableTwoFactor on a user whose flag is set answers 400
\* "Two-factor authentication is already enabled" and writes nothing;
\* otherwise it stores the new secret under 2fa_setup_<id> for 10 minutes in
\* place of whatever was there, touches no other key and leaves the row of
\* users as it was.
C23_EnableStoresPending ==
    \A id \in DOMAIN users, sec \in Secrets :
        LET out == enableTwoFactor(id, sec)
        IN  IF users[id].two_factor_enabled
              THEN /\ out.status = 400
                   /\ out.body.error = "Two-factor authentication is already enabled"
                   /\ out.st = Keep
              ELSE /\ out.status = 200
                   /\ out.st.redis.setup =
                        [k \in DOMAIN redis.setup \cup {id} |->
                           IF k = id THEN [v |-> sec, exp |-> now + SETUP_EXPIRE]
                                     ELSE redis.setup[k]]
                   /\ [out.st.redis EXCEPT !.setup = redis.setup] = redis
                   /\ out.st.users = users

\* C23 witness: enableTwoFactor was refused for a user whose flag is set
C23_Witness ==
    /\ resp.op = "enableTwoFactor"
    /\ resp.status = 400
    /\ \E id \in DOMAIN users : users[id].two_factor_enabled

\* C24: confirmTwoFactor without a pending secret answers 400 "No pending
\* 2FA setup found", and with a pending secret and a code that does not
\* verify it answers 400 "Invalid verification code"; either way the stores
\* are as before.
C24_ConfirmRejectsCleanly ==
    \A id \in DOMAIN users, code \in Codes(Skews), a \in BOOLEAN :
        LET out == confirmTwoFactor(id, code, a)
        IN  /\ ~has(redis.setup, id) =>
                /\ out.status = 400
                /\ out.body.error = "No pending 2FA setup found. Please start again."
                /\ out.st = Keep
            /\ (has(redis.setup, id)
                  /\ ~totpVerify(redis.setup[id].v, code, TOTP_WINDOW)) =>
                /\ out.status = 400
                /\ out.body.error = "Invalid verification code"
                /\ out.st = Keep

\* C24 witness: confirmTwoFactor refused a code and a pending secret is
\* still there
C24_Witness ==
    /\ resp.op = "confirmTwoFactor"
    /\ resp.status = 400
    /\ resp.body.error = "Invalid verification code"
    /\ \E id \in DOMAIN users : has(redis.setup, id)

\* the emails and passwords the user id logs in with
CorrectLogins(id) ==
    {l \in [email : Emails, password : Passwords] :
        /\ RowsByEmail(toLowerCase(l.email)) # {}
        /\ First(RowsByEmail(toLowerCase(l.email))) = id
        /\ bcryptCompare(l.password, users[id].password)}

\* C25: when confirmTwoFactor answers 200, the row of users holds the
\* pending secret the code was verified against and the flag, the pending
\* secret is gone, and the 8 backup codes of the response are stored
\* hashed; and a user whose flag is set gets the 2FA challenge from a login
\* with the correct password.
C25_ConfirmEnables ==
    /\ \A id \in DOMAIN users, code \in Codes(Skews) :
          LET out == confirmTwoFactor(id, code, TRUE)
          IN  out.status = 200 =>
                /\ totpVerify(redis.setup[id].v, code, TOTP_WINDOW)
                /\ out.st.users[id].two_factor_secret = redis.setup[id].v
                /\ out.st.users[id].two_factor_enabled
                /\ ~has(out.st.redis.setup, id)
                /\ Cardinality(out.body.backupCodes) = BACKUP_CODES
                /\ has(out.st.redis.backup, id)
                /\ out.st.redis.backup[id].v =
                      {bcryptHash(c) : c \in out.body.backupCodes}
                /\ Cardinality(out.st.redis.backup[id].v) = BACKUP_CODES
    /\ \A id \in DOMAIN users :
          users[id].two_factor_enabled =>
            \A l \in CorrectLogins(id) :
                LET out == login(l.email, l.password, TRUE)
                IN  /\ out.status = 200
                    /\ "requiresTwoFactor" \in DOMAIN out.body
                    /\ "accessToken" \notin DOMAIN out.body

\* C25 witness: confirmTwoFactor has answered 200 and a user has the flag,
\* a secret and stored backup codes
C25_Witness ==
    /\ resp.op = "confirmTwoFactor"
    /\ resp.status = 200
    /\ \E id \in DOMAIN users :
          /\ users[id].two_factor_enabled
          /\ users[id].two_factor_secret # NULL
          /\ has(redis.backup, id)
          /\ CorrectLogins(id) # {}

\* C26: disableTwoFactor with a password that does not match answers 401
\* "Invalid password" and writes nothing; with the password of the user it
\* clears the flag and the secret and deletes the backup codes; and a user
\* whose flag is clear gets tokens, not a challenge, from a login with the
\* correct password.
C26_DisableNeedsPassword ==
    /\ \A id \in DOMAIN users, p \in Passwords, a \in BOOLEAN :
          LET out == disableTwoFactor(id, p, a)
          IN  IF ~bcryptCompare(p, users[id].password)
                THEN /\ out.status = 401
                     /\ out.body.error = "Invalid password"
                     /\ out.st = Keep
                ELSE /\ a => out.status = 200
                     /\ TwoFactorOf(out.st.users[id]) =
                          [enabled |-> FALSE, secret |-> NULL]
                     /\ ~has(out.st.redis.backup, id)
    /\ \A id \in DOMAIN users :
          ~users[id].two_factor_enabled =>
            \A l \in CorrectLogins(id) :
                LET out == login(l.email, l.password, TRUE)
                IN  /\ out.status = 200
                    /\ "accessToken" \in DOMAIN out.body
                    /\ "requiresTwoFactor" \notin DOMAIN out.body

\* C26 witness: disableTwoFactor has answered 200 for a user who had
\* enabled 2FA, and the flag is clear
C26_Witness ==
    /\ resp.op = "disableTwoFactor"
    /\ resp.status = 200
    /\ \E id \in DOMAIN users :
          /\ auditRow(id, "2fa_enabled") \in audit_logs
          /\ auditRow(id, "2fa_disabled") \in audit_logs
          /\ ~users[id].two_factor_enabled
          /\ CorrectLogins(id) # {}

\* C27: in every state a user has a 2FA secret exactly when the flag of the
\* user is set.
C27_SecretIffEnabled ==
    \A id \in DOMAIN users :
        (users[id].two_factor_secret # NULL) <=> users[id].two_factor_enabled

\* C27 witness: a user who enabled, disabled and enabled 2FA again
C27_Witness ==
    /\ resp.op = "confirmTwoFactor"
    /\ \E id \in DOMAIN users :
          /\ auditRow(id, "2fa_disabled") \in audit_logs
          /\ users[id].two_factor_enabled
          /\ users[id].two_factor_secret # NULL

\* the tokens a client holds that carry a valid signature of JWT_SECRET and
\* a type other than `type`
OfOtherType(type) ==
    {t \in issued : jwtVerifies(t, "JWT_SECRET") /\ t.type # type}

\* C28: verifyTwoFactor answers 401 "Invalid token type" to every validly
\* signed token whose type is not 2fa_temp, and resetPassword answers 400
\* "Invalid token type" to every validly signed token whose type is not
\* password_reset; neither writes anything.
C28_TypesNotInterchangeable ==
    /\ \A t \in OfOtherType("2fa_temp") :
          \A code \in Codes(Skews), a \in BOOLEAN :
              LET out == verifyCheck(t, code, a)
              IN  /\ out.status = 401
                  /\ out.body.error = "Invalid token type"
                  /\ out.st = Keep
    /\ \A t \in OfOtherType("password_reset"), p \in Passwords :
          LET out == resetCheck(t, p)
          IN  /\ out.status = 400
              /\ out.body.error = "Invalid token type"
              /\ out.st = Keep

\* C28 witness: a token of another type was refused while a challenge and a
\* reset token of the same user were in the session store
C28_Witness ==
    /\ resp.op \in {"verifyTwoFactor", "resetPassword"}
    /\ resp.status \in {400, 401}
    /\ resp.body.error = "Invalid token type"
    /\ \E t \in OfOtherType("2fa_temp") :
          t.type = "password_reset" /\ has(redis.reset, t) /\ has(redis.temp, t.id)

\* the refresh tokens of the session records
Held == {redis.refresh[k].v.token : k \in DOMAIN redis.refresh}

\* the token is the one refreshTokens looks for: a refresh token that is the
\* one in the session record of its subject, and the subject is in users
Exchangeable(t) ==
    /\ t.type = "refresh"
    /\ has(redis.refresh, t.id)
    /\ redis.refresh[t.id].v.token = t
    /\ t.id \in DOMAIN users

\* C29: a refreshTokens call answers 200 only for a refresh token that is
\* the one in the session record of its subject and whose subject is in
\* users; every other token gets 401 and the stores stay as they are.
C29_RefreshOnlyHeldToken ==
    \A t \in Presented \cup {Missing} \cup Held :
        LET chk == refreshCheck(t)
            app == refreshApply(t)
        IN  IF Exchangeable(t)
              THEN chk.status = 0 => app.status = 200
              ELSE \/ chk.status = 401 /\ chk.st = Keep
                   \/ chk.status = 0 /\ app.status = 401 /\ app.st = Keep

\* C29 witness: refreshTokens has answered 200, the client holds an older
\* refresh token of the same subject, and there is a session record whose
\* subject is not in users
C29_Witness ==
    /\ resp.op = "refreshTokens"
    /\ resp.status = 200
    /\ Exchangeable(resp.body.refreshToken)
    /\ \E t \in issued :
          /\ t.type = "refresh"
          /\ t.id = resp.body.refreshToken.id
          /\ jwtVerifies(t, "JWT_REFRESH_SECRET")
          /\ ~Exchangeable(t)
    /\ \E t \in Held : refreshCheck(t).status = 0 /\ t.id \notin DOMAIN users

\* the access tokens that were given to a client
AccessTokens == {t \in issued : t.type = "access"}

\* C30: logout writes blacklist_<token> exactly when the exp claim of the
\* token minus the current second is positive, and the entry then lasts
\* for that difference; in both cases, and also when the audit insert
\* fails, refresh_<id> is deleted.
C30_BlacklistForRemainingLifetime ==
    \A t \in AccessTokens, a \in BOOLEAN :
        LET out == logout(t.id, t, a)
            ttl == TokenExp(t) - now
        IN  /\ IF ttl > 0
                 THEN out.st.redis.blacklist =
                        [k \in DOMAIN redis.blacklist \cup {t} |->
                           IF k = t THEN [v |-> "1", exp |-> now + ttl]
                                    ELSE redis.blacklist[k]]
                 ELSE out.st.redis.blacklist = redis.blacklist
            /\ t.id \notin DOMAIN out.st.redis.refresh

\* C30 witness: logout has blacklisted a token part of whose lifetime had
\* passed, the entry ends with the token and the session record is gone
C30_Witness ==
    /\ resp.op = "logout"
    /\ resp.status = 200
    /\ \E t \in revoked :
          /\ t.iat < now
          /\ has(redis.blacklist, t)
          /\ redis.blacklist[t].exp = TokenExp(t)
          /\ t.id \notin DOMAIN redis.refresh

\* C31: resetPasswordRequest for an email that no row of users has writes
\* nothing and sends no mail; for the email of a user it writes
\* reset_<token> with the id of the user for one hour under the token it
\* minted, and leaves every other key of the session store, the session
\* record of the user among them, and the table users as they were.
C31_ResetRequestFrame ==
    \A e \in Emails, sg \in MailOutcomes, a \in BOOLEAN :
        LET out   == resetPasswordRequest(e, sg, a)
            found == RowsByEmail(toLowerCase(e))
            id    == First(found)
            token == jwtSign(id, "password_reset")
        IN  IF found = {}
              THEN out.st = Keep /\ out.sent = {}
              ELSE /\ out.st.redis.reset =
                        [k \in DOMAIN redis.reset \cup {token} |->
                           IF k = token THEN [v |-> id, exp |-> now + RESET_EXPIRE]
                                        ELSE redis.reset[k]]
                   /\ [out.st.redis EXCEPT !.reset = redis.reset] = redis
                   /\ out.st.users = users

\* C31 witness: resetPasswordRequest has answered for a user who has a
\* session record, and the reset entry of the user is in the session store
C31_Witness ==
    /\ resp.op = "resetPasswordRequest"
    /\ resp.status = 200
    /\ \E t \in DOMAIN redis.reset :
          /\ has(redis.reset, t)
          /\ redis.reset[t].v = t.id
          /\ redis.reset[t].exp = now + RESET_EXPIRE
          /\ has(redis.refresh, t.id)

\* C32: verifyTwoFactor goes on to answer with tokens only for a challenge
\* token that a login handed out after it checked the password and that is
\* the one stored for its subject; and when verifyTwoFactor has just
\* answered with tokens for a subject, none of the challenge tokens handed
\* out for that subject so far (the one it consumed among them) is taken up
\* after the next step; calls one at a time.
C32_ChallengeBacksTokens ==
    [][ /\ \A t \in Presented, code \in Codes(Skews), a \in BOOLEAN :
              verifyCheck(t, code, a).status = 0 =>
                  /\ t \in issued
                  /\ t.type = "2fa_temp"
                  /\ has(redis.temp, t.id)
                  /\ redis.temp[t.id].v = t
        /\ ( /\ resp.op = "verifyTwoFactor"
             /\ resp.status = 200 )
           => \A t \in issued :
                 (t.type = "2fa_temp" /\ t.id = resp.body.user.id) =>
                     \A code \in Codes(Skews) :
                         verifyCheck(t, code, TRUE)'.status # 0
      ]_vars

\* C33: a resetPassword call that answers with an error leaves the table
\* users, the reset entries and the session records as they were.
C33_FailedResetChangesNothing ==
    [][ (resp'.op = "resetPassword" /\ resp'.status >= 400) =>
          /\ users' = users
          /\ redis'.reset = redis.reset
          /\ redis'.refresh = redis.refresh ]_vars

\* the last call that completed is op and it answered 200 for subject id
JustCompleted(op, id, consumed) ==
    /\ resp.op = op
    /\ resp.status = 200
    /\ \E t \in consumed : t.id = id

\* C34: when resetPassword has just succeeded for a subject, the session
\* record of the subject is absent and the next step leaves it absent unless
\* that step is a login, a signup or a verifyTwoFactor; a refreshTokens
\* call that was in flight is not excused.
C34_NoSessionAfterReset ==
    [][ /\ \A s \in Slots :
              ResetSucceeds(s) => calls[s].token.id \notin DOMAIN redis'.refresh
        /\ \A id \in DOMAIN users :
              ( /\ JustCompleted("resetPassword", id,
                                 {t \in spent : t.type = "password_reset"})
                /\ id \notin DOMAIN redis.refresh
                /\ resp'.op \notin {"login", "signup", "verifyTwoFactor"} )
              => id \notin DOMAIN redis'.refresh
      ]_vars

\* C35: when logout has just completed for a subject, the session record of
\* the subject is absent and the next step leaves it absent unless that
\* step is a login, a signup or a verifyTwoFactor; a refreshTokens call
\* that was in flight is not excused.
C35_NoSessionAfterLogout ==
    [][ /\ (resp'.op = "logout" /\ resp'.status = 200) =>
              \A t \in revoked' \ revoked : t.id \notin DOMAIN redis'.refresh
        /\ \A id \in DOMAIN users :
              ( /\ JustCompleted("logout", id, revoked)
                /\ id \notin DOMAIN redis.refresh
                /\ resp'.op \notin {"login", "signup", "verifyTwoFactor"} )
              => id \notin DOMAIN redis'.refresh
      ]_vars

\* C36: of two refreshTokens calls in flight with the same refresh token, at
\* most one succeeds: a call that another call with its token has overtaken
\* does not answer with a token pair.
C36_AtMostOneRefreshSucceeds ==
    [][ \A s \in Slots :
          ( /\ calls[s] # Idle
            /\ calls[s].op = "refreshTokens"
            /\ calls[s].overtaken
            /\ calls'[s] = Idle )
          => "refreshToken" \notin DOMAIN resp'.body ]_vars

\* the codes that verify for subject id now
RightCodes(id) ==
    {c \in Codes(Skews) : totpVerify(users[id].two_factor_secret, c, TOTP_WINDOW)}

\* C37: a verifyTwoFactor call that answers 401 "Invalid verification code"
\* leaves the session store and the table users as they were, and every
\* challenge token it could have been called with is afterwards still taken
\* up with a code that verifies, and answered with tokens.
C37_WrongCodeKeepsChallenge ==
    [][ ( /\ resp'.op = "verifyTwoFactor"
          /\ resp'.status = 401
          /\ resp'.body.error = "Invalid verification code" )
        => /\ redis' = redis
           /\ users' = users
           /\ Current # {}
           /\ \A t \in Current :
                 /\ RightCodes(t.id)' # {}
                 /\ \A c \in RightCodes(t.id)' :
                       verifyCheck(t, c, TRUE)'.status = 0
                 /\ verifyApply(t, TRUE)'.status = 200
                 /\ verifyApply(t, TRUE)'.body.refreshToken.id = t.id
      ]_vars

\* C37 witness: verifyTwoFactor has refused a wrong code and the challenge
\* is still taken up with a code that verifies
C37_Witness ==
    /\ resp.op = "verifyTwoFactor"
    /\ resp.status = 401
    /\ resp.body.error = "Invalid verification code"
    /\ \E t \in Current : \E c \in RightCodes(t.id) :
          verifyCheck(t, c, TRUE).status = 0
    /\ \E id \in DOMAIN users : auditRow(id, "failed_2fa") \in audit_logs

\* the reset tokens of the subject of t, other than t, that resetPassword
\* takes up
OtherUsable(t) == {u \in Usable : u.id = t.id /\ u # t}

\* C38: a resetPassword that succeeds with a reset token deletes the reset
\* entry of that token and no other, and every other reset token of the
\* subject that resetPassword took up before is taken up afterwards too.
C38_ResetTokensIndependent ==
    [][ \A s \in Slots :
          ResetSucceeds(s) =>
            LET t == calls[s].token
            IN  /\ redis'.reset =
                      [k \in DOMAIN redis.reset \ {t} |-> redis.reset[k]]
                /\ \A u \in OtherUsable(t), p \in Passwords :
                      validatePassword(p).isValid =>
                          resetCheck(u, p)'.status = 0
      ]_vars

\* C38 witness: resetPassword has succeeded with one reset token of a
\* subject and another reset token of the subject is still taken up
C38_Witness ==
    /\ resp.op = "resetPassword"
    /\ resp.status = 200
    /\ \E t \in spent : t.type = "password_reset" /\ OtherUsable(t) # {}

\* C39: the connection count of every user stays between 0 and
\* maxConnectionsPerUser (5); checkLimit returns false and changes nothing
\* exactly when the count of the user is 5, and otherwise returns true and
\* adds one to that count only; removeConnection takes one off the count of
\* the user when it is above 0 and changes nothing otherwise.
C39_ConnectionCountBounded ==
    /\ \A u \in DOMAIN connections :
          connections[u] >= 0 /\ connections[u] <= maxConnectionsPerUser
    /\ \A u \in SocketUsers :
          LET n   == connectionsOf(connections, u)
              out == checkLimit(u)
              rem == removeConnection(u)
          IN  /\ out.result = FALSE <=> n = maxConnectionsPerUser
              /\ IF n = maxConnectionsPerUser
                   THEN out.connections = connections
                   ELSE /\ connectionsOf(out.connections, u) = n + 1
                        /\ \A v \in SocketUsers \ {u} :
                              connectionsOf(out.connections, v) =
                                  connectionsOf(connections, v)
              /\ connectionsOf(rem, u) = IF n > 0 THEN n - 1 ELSE 0
              /\ n = 0 => rem = connections
              /\ \A v \in SocketUsers \ {u} :
                    connectionsOf(rem, v) = connectionsOf(connections, v)

\* C39 witness: checkLimit has refused a user with 5 connections while
\* another user has none left after closing
C39_Witness ==
    /\ resp.op = "checkLimit"
    /\ resp.result = FALSE
    /\ connectionsOf(connections, resp.userId) = maxConnectionsPerUser
    /\ \E v \in DOMAIN connections : connections[v] = 0

\* C40: for every number, the messages the gateway accepted within the last
\* hour are at most maxSMSPerHour (10) and those within the last 24 hours at
\* most maxSMSPerDay (50), also when sends to the number overlap.
C40_SmsRateLimited ==
    \A n \in DOMAIN delivered :
        /\ Len(After(delivered[n], now - HOUR)) <= maxSMSPerHour
        /\ Len(After(delivered[n], now - DAY)) <= maxSMSPerDay

=============================================================================
